---- MODULE Spec2Model ----
(***************************************************************************)
(* Job queue / dispatch core of elevate-emails.                            *)
(*                                                                         *)
(*   src/src/job-queue-manager.js            JobQueueManager (queue store) *)
(*   src/src/email-service-v2.js             EmailServiceV2.sendJobEmail   *)
(*   src/netlify/functions/job-email-scheduler-v2.js   schedulerHandler    *)
(*                                                                         *)
(* The persisted queue document lives in one Netlify Blobs key.  Time is a *)
(* discrete clock `now`; an ISO timestamp is modelled by the clock value   *)
(* at which it was taken, and 0 stands for an absent timestamp.  One clock *)
(* unit is one day for cleanupOldJobs' cutoff arithmetic.                  *)
(***************************************************************************)
EXTENDS Integers, Sequences, FiniteSets, TLC

\* ------------------------------------------------------------------ bounds
MaxQueue == 3           \* records a queue document holds
MaxTime == 2            \* last value of the clock

MaxCampaigns == 2       \* campaigns sent before the scheduler is stopped
MaxCalls == 2           \* queue-store calls of one invocation that overlap others

MaxTotal == MaxQueue    \* cap of totalJobsProcessed
Guids == 1..3           \* the postings of the feed
Days == 0..1            \* daysOld arguments of cleanupOldJobs
BatchSizes == 0..MaxQueue

\* A store call fails at most once: its get throws, or its set throws (a
\* failed get followed by a failed set leaves the store and the caller as a
\* failed set alone does).
Faults == {"none", "read", "write"}

\* A falsy guid (`!job.guid`) and a falsy timestamp (`!job.sentAt`,
\* `job.pubDate || ...`).
NoGuid == 0
NoDate == 0

DefaultThreshold == 10

\* The threshold getQueueStats compares with: `10 - pendingJobs.length`.
StatsThreshold == 10

VARIABLES
    blob,       \* the 'job-queue' key of the blob store: <<>> or <<document>>
    now,        \* the clock read by new Date()
    last,       \* the queue-store call just made, as its caller sees it
    env,        \* process.env.JOB_THRESHOLD as parseInt reads it (0: unset)
    campaigns,  \* campaigns the mail provider has sent
    inv         \* the scheduler invocations: position and locals of each

vars == <<blob, now, last, env, campaigns, inv>>
cycleVars == <<env, campaigns, inv>>

\* ------------------------------------------------------- the queue document

\* getEmptyQueue(): job-queue-manager.js 66-73
getEmptyQueue(t) ==
    [jobQueue |-> <<>>, lastProcessed |-> t, emailsSent |-> 0,
     totalJobsProcessed |-> 0]

\* normalizeQueueData(data): job-queue-manager.js 55-64.  `data` is <<>> (no
\* value) or <<doc>>; every document the store holds was written by
\* saveQueueData, so jobQueue is an array and the counters are numbers, and
\* only the falsy defaults remain.
normalizeQueueData(data, t) ==
    IF Len(data) = 0 THEN getEmptyQueue(t)
    ELSE [jobQueue |-> data[1].jobQueue,
          lastProcessed |-> IF data[1].lastProcessed = NoDate THEN t
                            ELSE data[1].lastProcessed,
          emailsSent |-> data[1].emailsSent,
          totalJobsProcessed |-> data[1].totalJobsProcessed]

\* getJobQueue(): job-queue-manager.js 33-53.  readOK = FALSE is store.get
\* throwing: the catch returns the empty queue.  A store without the key
\* falls through to the (empty) in-memory fallback of the fresh instance.
getJobQueue(b, t, readOK) ==
    IF readOK THEN normalizeQueueData(b, t) ELSE getEmptyQueue(t)

\* getPendingCount(queueData): job-queue-manager.js 186-189
IsPending(job) == job.status = "pending"
getPendingCount(queueData) == Len(SelectSeq(queueData.jobQueue, IsPending))

GuidsOf(q) == {q[i].guid : i \in DOMAIN q}

\* What a queue-store call did: the store afterwards, the value returned,
\* whether it threw, whether saveQueueData completed.
Outcome(b, doc, flag, batch, threw, wrote) ==
    [blob |-> b, retDoc |-> doc, retBool |-> flag, retBatch |-> batch,
     threw |-> threw, wrote |-> wrote]

\* A save that sets the fields of the stored document one by one and leaves
\* out the counters (a field-level write).
saveQueueData_FieldWise(b, queueData) ==
    IF b = <<>> THEN <<queueData>>
    ELSE <<[b[1] EXCEPT !.jobQueue = queueData.jobQueue,
                        !.lastProcessed = queueData.lastProcessed]>>

\* saveQueueData(queueData): job-queue-manager.js 174-184.  store.setJSON
\* puts the whole document under the key, whatever the key held (b).
saveQueueData(b, queueData) == <<queueData>>

\* ------------------------------------------------------------- addNewJobs

\* The filter/map of job-queue-manager.js 83-100.  jobNumber and applyUrl are
\* copied from the feed item and discoveredAt is stamped here; no code of
\* the queue or of the scheduler reads them again, so a record is modelled
\* by the fields the code reads: guid, pubDate, status, sentAt.
NewJobs(queueData, jobMetadata, t) ==
    LET existingGuids == GuidsOf(queueData.jobQueue)
        Fresh(job) == job.guid # NoGuid /\ job.guid \notin existingGuids
        kept == SelectSeq(jobMetadata, Fresh)
    IN [i \in DOMAIN kept |->
          [guid |-> kept[i].guid,
           pubDate |-> IF kept[i].pubDate = NoDate THEN t ELSE kept[i].pubDate,
           status |-> "pending",
           sentAt |-> NoDate]]

\* addNewJobs(jobMetadata): job-queue-manager.js 75-120
addNewJobs(b, jobMetadata, t, readOK, writeOK) ==
    LET queueData == getJobQueue(b, t, readOK)
        newJobs == NewJobs(queueData, jobMetadata, t)
        updated == [queueData EXCEPT
                      !.jobQueue = queueData.jobQueue \o newJobs,
                      !.totalJobsProcessed = queueData.totalJobsProcessed + Len(newJobs),
                      !.lastProcessed = t]
    IN IF Len(jobMetadata) = 0 \/ Len(newJobs) = 0
       THEN Outcome(b, queueData, FALSE, <<>>, FALSE, FALSE)
       ELSE IF writeOK
       THEN Outcome(saveQueueData(b, updated), updated, FALSE, <<>>, FALSE, TRUE)
       ELSE Outcome(b, updated, FALSE, <<>>, TRUE, FALSE)

\* ------------------------------------------------------------ getNextBatch

\* Array.prototype.sort with (a, b) => new Date(a.pubDate) - new Date(b.pubDate):
\* a stable sort (Node 18), here insertion of each element after its equals.
\* The sort with ties placed newest-inserted first (an unstable sort).
RECURSIVE InsertByPubDate_Unstable(_, _)
InsertByPubDate_Unstable(job, sorted) ==
    IF sorted = <<>> THEN <<job>>
    ELSE IF sorted[Len(sorted)].pubDate < job.pubDate THEN Append(sorted, job)
    ELSE Append(InsertByPubDate_Unstable(job, SubSeq(sorted, 1, Len(sorted) - 1)),
                sorted[Len(sorted)])

RECURSIVE InsertByPubDate(_, _)
InsertByPubDate(job, sorted) ==
    IF sorted = <<>> THEN <<job>>
    ELSE IF sorted[Len(sorted)].pubDate <= job.pubDate THEN Append(sorted, job)
    ELSE Append(InsertByPubDate(job, SubSeq(sorted, 1, Len(sorted) - 1)),
                sorted[Len(sorted)])

RECURSIVE SortByPubDate(_)
SortByPubDate(jobs) ==
    IF jobs = <<>> THEN <<>>
    ELSE InsertByPubDate(jobs[Len(jobs)],
                         SortByPubDate(SubSeq(jobs, 1, Len(jobs) - 1)))

\* getNextBatch without its `status === 'pending'` filter.
getNextBatch_AnyStatus(b, count, t, readOK) ==
    LET queueData == getJobQueue(b, t, readOK)
        jobs == SortByPubDate(queueData.jobQueue)
        k == IF count < Len(jobs) THEN count ELSE Len(jobs)
    IN Outcome(b, queueData, FALSE, SubSeq(jobs, 1, k), FALSE, FALSE)

\* getNextBatch(count): job-queue-manager.js 122-138; slice(0, count) with
\* count >= 0.
getNextBatch(b, count, t, readOK) ==
    LET queueData == getJobQueue(b, t, readOK)
        pendingJobs == SortByPubDate(SelectSeq(queueData.jobQueue, IsPending))
        k == IF count < Len(pendingJobs) THEN count ELSE Len(pendingJobs)
    IN Outcome(b, queueData, FALSE, SubSeq(pendingJobs, 1, k), FALSE, FALSE)

\* -------------------------------------------------------------- markAsSent

\* The forEach without its `status === 'pending'` test.
MarkJobs_AnyStatus(q, guidSet, t) ==
    [i \in DOMAIN q |->
        IF q[i].guid \in guidSet
        THEN [q[i] EXCEPT !.status = "sent", !.sentAt = t]
        ELSE q[i]]

\* The forEach of job-queue-manager.js 151-157.
MarkJobs(q, guidSet, t) ==
    [i \in DOMAIN q |->
        IF q[i].guid \in guidSet /\ q[i].status = "pending"
        THEN [q[i] EXCEPT !.status = "sent", !.sentAt = t]
        ELSE q[i]]

markedCount(q, guidSet) ==
    Cardinality({i \in DOMAIN q : q[i].guid \in guidSet /\ q[i].status = "pending"})

\* markAsSent without its `markedCount > 0` test: it saves on every call.
markAsSent_AlwaysSave(b, guids, t, readOK, writeOK) ==
    LET queueData == getJobQueue(b, t, readOK)
        updated == [queueData EXCEPT
                      !.jobQueue = MarkJobs(queueData.jobQueue, guids, t),
                      !.emailsSent = queueData.emailsSent + 1,
                      !.lastProcessed = t]
    IN IF writeOK
       THEN Outcome(<<updated>>, updated, TRUE, <<>>, FALSE, TRUE)
       ELSE Outcome(b, updated, FALSE, <<>>, TRUE, FALSE)

\* markAsSent counting one email per record marked.
markAsSent_CountJobs(b, guids, t, readOK, writeOK) ==
    LET queueData == getJobQueue(b, t, readOK)
        n == markedCount(queueData.jobQueue, guids)
        updated == [queueData EXCEPT
                      !.jobQueue = MarkJobs(queueData.jobQueue, guids, t),
                      !.emailsSent = queueData.emailsSent + n,
                      !.lastProcessed = t]
    IN IF guids = {} \/ n = 0
       THEN Outcome(b, queueData, FALSE, <<>>, FALSE, FALSE)
       ELSE IF writeOK
       THEN Outcome(<<updated>>, updated, TRUE, <<>>, FALSE, TRUE)
       ELSE Outcome(b, updated, FALSE, <<>>, TRUE, FALSE)

\* markAsSent whose failing save has stored the document before it throws.
markAsSent_SaveThenThrow(b, guids, t, readOK, writeOK) ==
    LET queueData == getJobQueue(b, t, readOK)
        n == markedCount(queueData.jobQueue, guids)
        updated == [queueData EXCEPT
                      !.jobQueue = MarkJobs(queueData.jobQueue, guids, t),
                      !.emailsSent = queueData.emailsSent + 1,
                      !.lastProcessed = t]
    IN IF guids = {} \/ n = 0
       THEN Outcome(b, queueData, FALSE, <<>>, FALSE, FALSE)
       ELSE IF writeOK
       THEN Outcome(<<updated>>, updated, TRUE, <<>>, FALSE, TRUE)
       ELSE Outcome(<<updated>>, updated, FALSE, <<>>, TRUE, FALSE)

markAsSent(b, guids, t, readOK, writeOK) ==
    LET queueData == getJobQueue(b, t, readOK)
        n == markedCount(queueData.jobQueue, guids)
        updated == [queueData EXCEPT
                      !.jobQueue = MarkJobs(queueData.jobQueue, guids, t),
                      !.emailsSent = queueData.emailsSent + 1,
                      !.lastProcessed = t]
    IN IF guids = {} \/ n = 0
       THEN Outcome(b, queueData, FALSE, <<>>, FALSE, FALSE)
       ELSE IF writeOK
       THEN Outcome(saveQueueData(b, updated), updated, TRUE, <<>>, FALSE, TRUE)
       ELSE Outcome(b, updated, FALSE, <<>>, TRUE, FALSE)

\* ---------------------------------------------------------- cleanupOldJobs

\* The filter keeping a sent record stamped exactly at the cutoff.
KeptByCleanup_AtCutoff(q, cutoffDate) ==
    LET Keep(job) == \/ job.status = "pending"
                     \/ job.sentAt = NoDate
                     \/ job.sentAt >= cutoffDate
    IN SelectSeq(q, Keep)

\* The filter of job-queue-manager.js 242-247 with cutoffDate = now - daysOld.
KeptByCleanup(q, cutoffDate) ==
    LET Keep(job) == \/ job.status = "pending"
                     \/ job.sentAt = NoDate
                     \/ job.sentAt > cutoffDate
    IN SelectSeq(q, Keep)

\* cleanupOldJobs(daysOld): job-queue-manager.js 235-261.  A failed save is
\* caught and the queue is read again (reread = that second read's outcome).
cleanupOldJobs(b, daysOld, t, readOK, writeOK, reread) ==
    LET queueData == getJobQueue(b, t, readOK)
        kept == KeptByCleanup(queueData.jobQueue, t - daysOld)
        updated == [queueData EXCEPT !.jobQueue = kept]
    IN IF Len(kept) = Len(queueData.jobQueue)
       THEN Outcome(b, updated, FALSE, <<>>, FALSE, FALSE)
       ELSE IF writeOK
       THEN Outcome(saveQueueData(b, updated), updated, FALSE, <<>>, FALSE, TRUE)
       ELSE Outcome(b, getJobQueue(b, t, reread), FALSE, <<>>, FALSE, FALSE)

\* ----------------------------------------------------------- getQueueStats

\* The object of the catch (job-queue-manager.js 219-232): zeroed, with the
\* error's message.
ErrorStats ==
    [totalJobs |-> 0, pendingJobs |-> 0, sentJobs |-> 0,
     neededForEmail |-> StatsThreshold, emailsSent |-> 0,
     totalJobsProcessed |-> 0, error |-> TRUE]

NoStats == [ErrorStats EXCEPT !.neededForEmail = 0, !.error = FALSE]

\* getQueueStats(): job-queue-manager.js 191-233.  getJobQueue has caught a
\* failed read itself and handed back the empty queue, and every record of a
\* saved document has a status and a pubDate, so nothing inside the try
\* throws: the stats are computed from whatever getJobQueue returned and
\* have no error field.
getQueueStats(b, t, readOK) ==
    LET queueData == getJobQueue(b, t, readOK)
        IsSent(job) == job.status = "sent"
        pendingJobs == Len(SelectSeq(queueData.jobQueue, IsPending))
    IN [totalJobs |-> Len(queueData.jobQueue),
        pendingJobs |-> pendingJobs,
        sentJobs |-> Len(SelectSeq(queueData.jobQueue, IsSent)),
        neededForEmail |-> IF StatsThreshold - pendingJobs > 0
                           THEN StatsThreshold - pendingJobs ELSE 0,
        emailsSent |-> queueData.emailsSent,
        totalJobsProcessed |-> queueData.totalJobsProcessed,
        error |-> FALSE]

\* ------------------------------------------------- queue-store call actions

\* Every posting has one publish date in the feed (extractJobMetadata always
\* supplies pubDate); postings 1 and 3 tie, posting 2 is older than both.
PubDateOf(g) == 1 + (g % 2)

\* Feed metadata handed to addNewJobs: items {guid, pubDate}, guid possibly
\* missing, the same guid possibly twice.
Items == {[guid |-> g, pubDate |-> PubDateOf(g)] : g \in Guids \cup {NoGuid}}
RECURSIVE SeqsUpTo(_, _)
SeqsUpTo(S, n) ==
    IF n = 0 THEN {<<>>}
    ELSE LET shorter == SeqsUpTo(S, n - 1)
         IN shorter \cup {Append(s, x) : s \in shorter, x \in S}
Inputs == SeqsUpTo(Items, 2)

\* A queue-store call as its caller sees it: the call and its arguments
\* (guids for markAsSent, n for getNextBatch's count and cleanupOldJobs'
\* daysOld), the store fault it met, the store before it, the document its
\* getJobQueue obtained, and what came back.  op = "none" between calls.
NoCall ==
    [op |-> "none", items |-> <<>>, guids |-> {}, n |-> 0, fault |-> "none",
     before |-> <<>>, read |-> getEmptyQueue(NoDate),
     out |-> Outcome(<<>>, getEmptyQueue(NoDate), FALSE, <<>>, FALSE, FALSE),
     stats |-> NoStats]

Call(op, items, guids, n, fault, out) ==
    [op |-> op, items |-> items, guids |-> guids, n |-> n, fault |-> fault,
     before |-> blob, read |-> getJobQueue(blob, now, fault # "read"), out |-> out,
     stats |-> NoStats]

Idle == last.op = "none"

\* Scheduler invocations.  Each runs schedulerHandler once, with a fresh
\* JobQueueManager, against the shared blob store.
Procs == {1, 2}

\* The store call an invocation has in flight between its getJobQueue and its
\* saveQueueData: the call, its arguments, and the document getJobQueue
\* returned to it.
NoHeld ==
    [op |-> "none", items |-> <<>>, guids |-> {}, n |-> 0,
     doc |-> getEmptyQueue(NoDate)]

NoResult == [kind |-> "none", needed |-> 0, failedAt |-> "none", queueUpdated |-> FALSE]

IdleInv ==
    [pc |-> "idle", jobMetadata |-> <<>>, pendingCount |-> 0, jobGuids |-> <<>>,
     found |-> 0, sends |-> 0, sent |-> FALSE, marks |-> 0, afterAdd |-> <<>>,
     atSend |-> <<>>, result |-> NoResult, retry |-> <<>>,
     overlap |-> FALSE, storeFault |-> FALSE, held |-> NoHeld,
     calls |-> 0, notice |-> "none", notices |-> 0, mailed |-> {},
     removed |-> 0, transitions |-> 0]

Init ==
    /\ blob = <<>>
    /\ now = 1
    /\ last = NoCall
    /\ env = 0
    /\ campaigns = 0
    /\ inv = [p \in Procs |-> IdleInv]

Tick ==
    /\ Idle
    /\ now < MaxTime
    /\ now' = now + 1
    /\ UNCHANGED <<blob, last, cycleVars>>

AddNewJobs ==
    \E jobMetadata \in Inputs, fault \in Faults :
        LET out == addNewJobs(blob, jobMetadata, now, fault # "read", fault # "write") IN
        /\ Idle
        /\ Len(out.retDoc.jobQueue) <= MaxQueue
        /\ out.retDoc.totalJobsProcessed <= MaxTotal
        /\ blob' = out.blob
        /\ last' = Call("addNewJobs", jobMetadata, {}, 0, fault, out)
        /\ UNCHANGED <<now, cycleVars>>

GetNextBatch ==
    \E count \in BatchSizes, fault \in {"none", "read"} :
        LET out == getNextBatch(blob, count, now, fault # "read") IN
        /\ Idle
        /\ blob' = out.blob
        /\ last' = Call("getNextBatch", <<>>, {}, count, fault, out)
        /\ UNCHANGED <<now, cycleVars>>

MarkAsSent ==
    \E guids \in SUBSET Guids, fault \in Faults :
        LET out == markAsSent(blob, guids, now, fault # "read", fault # "write") IN
        /\ Idle
        /\ blob' = out.blob
        /\ last' = Call("markAsSent", <<>>, guids, 0, fault, out)
        /\ UNCHANGED <<now, cycleVars>>

\* reread: whether the read in the catch (line 259) succeeds; it happens only
\* after a failed save.
CleanupOldJobs ==
    \E daysOld \in Days, fault \in Faults, reread \in BOOLEAN :
        LET out == cleanupOldJobs(blob, daysOld, now, fault # "read",
                                  fault # "write", reread)
        IN
        /\ Idle
        /\ fault = "write" \/ reread
        /\ blob' = out.blob
        /\ last' = Call("cleanupOldJobs", <<>>, {}, daysOld, fault, out)
        /\ UNCHANGED <<now, cycleVars>>

\* getQueueStats reads and returns the stats object; it saves nothing.
GetQueueStats ==
    \E fault \in {"none", "read"} :
        LET queueData == getJobQueue(blob, now, fault # "read")
            out == Outcome(blob, queueData, FALSE, <<>>, FALSE, FALSE)
        IN
        /\ Idle
        /\ last' = [Call("getQueueStats", <<>>, {}, 0, fault, out)
                      EXCEPT !.stats = getQueueStats(blob, now, fault # "read")]
        /\ UNCHANGED <<blob, now, cycleVars>>

\* The caller takes the result; the next call can start.
Return ==
    /\ ~Idle
    /\ last' = NoCall
    /\ UNCHANGED <<blob, now, cycleVars>>

Next ==
    \/ Tick
    \/ AddNewJobs
    \/ GetNextBatch
    \/ MarkAsSent
    \/ CleanupOldJobs
    \/ GetQueueStats
    \/ Return

Spec == Init /\ [][Next]_vars

\* ------------------------------------------------------ the dispatch cycle
\* schedulerHandler (job-email-scheduler-v2.js 6-112) and, inside it,
\* EmailServiceV2.sendJobEmail (email-service-v2.js 29-80), one action per
\* awaited call.  getQueueStats (15, 53, 80) only reads and its value only
\* goes into the response body.

\* const jobThreshold = parseInt(process.env.JOB_THRESHOLD) || 10 (line 38)
jobThreshold == IF env = 0 THEN DefaultThreshold ELSE env

\* Metadata fetchJobMetadata returns: extractJobMetadata gives every item a
\* guid (item.guid || item.link), so no item lacks one.
FeedItems == {[guid |-> g, pubDate |-> PubDateOf(g)] : g \in Guids}
Feeds == SeqsUpTo(FeedItems, 2)

Result(kind, needed, failedAt, queueUpdated) ==
    [kind |-> kind, needed |-> needed, failedAt |-> failedAt,
     queueUpdated |-> queueUpdated]

\* error.message as the catch of schedulerHandler receives it, outermost
\* wrapper first: sendJobEmail's catch (email-service-v2.js 75-79) prefixes
\* whatever was thrown inside its try (hydration, campaign, markAsSent) with
\* 'Failed to send job email'.
Message(at) ==
    CASE at = "config"  -> <<"Missing required Mailchimp environment variables">>
      [] at = "fetch"   -> <<"Failed to fetch RSS metadata">>
      [] at = "add"     -> <<"Failed to add jobs to queue">>
      [] at = "hydrate" -> <<"Failed to send job email", "Failed to fetch job details">>
      [] at = "send"    -> <<"Failed to send job email", "Failed to send campaign">>
      [] at = "mark"    -> <<"Failed to send job email", "Failed to mark jobs as sent">>
      [] OTHER          -> <<>>

\* The response body of the handler for a result: lines 103-110 for an
\* error, the 200 responses otherwise.
Response(result) ==
    IF result.kind = "error"
    THEN [statusCode |-> 500, error |-> "Job scheduler V2 failed",
          message |-> Message(result.failedAt)]
    ELSE [statusCode |-> 200, error |-> "", message |-> <<result.kind>>]

\* The catch of schedulerHandler (91-111): a 500 response.
Failed(p, at) ==
    [inv[p] EXCEPT !.pc = "done", !.result = Result("error", 0, at, FALSE)]

Finished(p, result) == [inv[p] EXCEPT !.pc = "done", !.result = result]

\* Lines 10-15: the constructors; new EmailServiceV2() throws when the
\* Mailchimp variables are missing.
Start(p) ==
    /\ inv[p].pc = "idle"
    /\ campaigns < MaxCampaigns
    /\ \E configOK \in BOOLEAN :
         inv' = [inv EXCEPT ![p] =
                   IF configOK
                   THEN [inv[p] EXCEPT !.pc = "fetch",
                           !.overlap = \E q \in Procs \ {p} :
                                          inv[q].pc \notin {"idle", "done"}]
                   ELSE Failed(p, "config")]
    /\ UNCHANGED <<blob, now, last, env, campaigns>>

\* The handler without its `jobMetadata.length === 0` test.
Fetch_NoEmptyTest(p) ==
    /\ inv[p].pc = "fetch"
    /\ \/ \E feed \in Feeds :
            LET fit == addNewJobs(blob, feed, now, TRUE, TRUE).retDoc IN
            /\ Len(fit.jobQueue) <= MaxQueue
            /\ fit.totalJobsProcessed <= MaxTotal
            /\ inv' = [inv EXCEPT ![p] =
                         [inv[p] EXCEPT !.pc = "add", !.jobMetadata = feed]]
       \/ inv' = [inv EXCEPT ![p] = Failed(p, "fetch")]
    /\ UNCHANGED <<blob, now, last, env, campaigns>>

\* The handler saving an empty queue document when the fetch has failed.
Fetch_ResetOnError(p) ==
    /\ inv[p].pc = "fetch"
    /\ \/ /\ \E feed \in Feeds :
               LET fit == addNewJobs(blob, feed, now, TRUE, TRUE).retDoc IN
               /\ Len(fit.jobQueue) <= MaxQueue
               /\ fit.totalJobsProcessed <= MaxTotal
               /\ inv' = [inv EXCEPT ![p] =
                            IF Len(feed) = 0
                            THEN Finished(p, Result("noJobs", 0, "none", FALSE))
                            ELSE [inv[p] EXCEPT !.pc = "add", !.jobMetadata = feed]]
          /\ blob' = blob
       \/ /\ inv' = [inv EXCEPT ![p] = Failed(p, "fetch")]
          /\ blob' = <<getEmptyQueue(now)>>
    /\ UNCHANGED <<now, last, env, campaigns>>

\* Lines 18-31: fetchJobMetadata throws, or returns the feed's metadata.
Fetch(p) ==
    /\ inv[p].pc = "fetch"
    /\ \/ \E feed \in Feeds :
            LET fit == addNewJobs(blob, feed, now, TRUE, TRUE).retDoc IN
            /\ Len(fit.jobQueue) <= MaxQueue
            /\ fit.totalJobsProcessed <= MaxTotal
            /\ inv' = [inv EXCEPT ![p] =
                         IF Len(feed) = 0
                         THEN Finished(p, Result("noJobs", 0, "none", FALSE))
                         ELSE [inv[p] EXCEPT !.pc = "add", !.jobMetadata = feed]]
       \/ inv' = [inv EXCEPT ![p] = Failed(p, "fetch")]
    /\ UNCHANGED <<blob, now, last, env, campaigns>>

\* Lines 33-36: addNewJobs, then getPendingCount of the state it returned.
Add(p) ==
    /\ inv[p].pc = "add"
    /\ \E fault \in Faults :
         LET out == addNewJobs(blob, inv[p].jobMetadata, now, fault # "read",
                               fault # "write")
         IN /\ blob' = out.blob
            /\ inv' = [inv EXCEPT ![p] =
                         IF out.threw
                         THEN [Failed(p, "add") EXCEPT !.storeFault = TRUE]
                         ELSE [inv[p] EXCEPT !.pc = "gate", !.afterAdd = out.blob,
                                 !.pendingCount = getPendingCount(out.retDoc),
                                 !.storeFault = @ \/ fault # "none"]]
    /\ UNCHANGED <<now, last, env, campaigns>>

\* The handler without its threshold test: every cycle goes on to the batch.
Gate_NoTest(p) ==
    /\ inv[p].pc = "gate"
    /\ inv' = [inv EXCEPT ![p] = [inv[p] EXCEPT !.pc = "batch"]]
    /\ UNCHANGED <<blob, now, last, env, campaigns>>

\* Lines 38-39 and 78-89: the threshold test.
\* The handler whose below-threshold branch does not return.
Gate_FallThrough(p) ==
    /\ inv[p].pc = "gate"
    /\ inv' = [inv EXCEPT ![p] =
                 IF inv[p].pendingCount >= jobThreshold
                 THEN [inv[p] EXCEPT !.pc = "batch"]
                 ELSE [inv[p] EXCEPT !.pc = "batch",
                         !.result = Result("waiting",
                                           jobThreshold - inv[p].pendingCount,
                                           "none", FALSE)]]
    /\ UNCHANGED <<blob, now, last, env, campaigns>>

Gate(p) ==
    /\ inv[p].pc = "gate"
    /\ inv' = [inv EXCEPT ![p] =
                 IF inv[p].pendingCount >= jobThreshold
                 THEN [inv[p] EXCEPT !.pc = "batch"]
                 ELSE Finished(p, Result("waiting",
                         IF jobThreshold - inv[p].pendingCount > 0
                         THEN jobThreshold - inv[p].pendingCount ELSE 0,
                         "none", FALSE))]
    /\ UNCHANGED <<blob, now, last, env, campaigns>>

\* The handler taking the newest pending records instead of the oldest.
Batch_Newest(p) ==
    /\ inv[p].pc = "batch"
    /\ \E readOK \in BOOLEAN :
         LET all == getNextBatch(blob, MaxQueue + 1, now, readOK).retBatch
             k == IF jobThreshold < Len(all) THEN jobThreshold ELSE Len(all)
             jobsForEmail == SubSeq(all, Len(all) - k + 1, Len(all))
         IN
         inv' = [inv EXCEPT ![p] =
                   IF Len(jobsForEmail) > 0
                   THEN [inv[p] EXCEPT !.pc = "hydrate",
                           !.jobGuids = [i \in DOMAIN jobsForEmail |-> jobsForEmail[i].guid]]
                   ELSE Finished(p, Result("emptyBatch", 0, "none", FALSE))]
    /\ UNCHANGED <<blob, now, last, env, campaigns>>

\* The handler without its `jobsForEmail.length > 0` test.
Batch_NoEmptyTest(p) ==
    /\ inv[p].pc = "batch"
    /\ \E readOK \in BOOLEAN :
         LET jobsForEmail == getNextBatch(blob, jobThreshold, now, readOK).retBatch IN
         inv' = [inv EXCEPT ![p] =
                   [inv[p] EXCEPT !.pc = "hydrate",
                      !.jobGuids = [i \in DOMAIN jobsForEmail |-> jobsForEmail[i].guid],
                      !.storeFault = @ \/ ~readOK]]
    /\ UNCHANGED <<blob, now, last, env, campaigns>>

Batch(p) ==
    /\ inv[p].pc = "batch"
    /\ \E readOK \in BOOLEAN :
         LET jobsForEmail == getNextBatch(blob, jobThreshold, now, readOK).retBatch IN
         inv' = [inv EXCEPT ![p] =
                   [(IF Len(jobsForEmail) > 0
                     THEN [inv[p] EXCEPT !.pc = "hydrate",
                             !.jobGuids = [i \in DOMAIN jobsForEmail |-> jobsForEmail[i].guid]]
                     ELSE Finished(p, Result("emptyBatch", 0, "none", FALSE)))
                    EXCEPT !.storeFault = @ \/ ~readOK]]
    /\ UNCHANGED <<blob, now, last, env, campaigns>>

\* sendJobEmail without its `jobs.length === 0` test.
Hydrate_NoEmptyTest(p) ==
    /\ inv[p].pc = "hydrate"
    /\ \/ \E found \in 0..Len(inv[p].jobGuids) :
            inv' = [inv EXCEPT ![p] = [inv[p] EXCEPT !.pc = "send", !.found = found]]
       \/ inv' = [inv EXCEPT ![p] = Failed(p, "hydrate")]
    /\ UNCHANGED <<blob, now, last, env, campaigns>>

\* email-service-v2.js 41-49: fetchJobDetails throws, or finds `found` of the
\* batch's postings in the feed; none found throws.
Hydrate(p) ==
    /\ inv[p].pc = "hydrate"
    /\ \/ \E found \in 0..Len(inv[p].jobGuids) :
            inv' = [inv EXCEPT ![p] =
                      IF found = 0 THEN Failed(p, "hydrate")
                      ELSE [inv[p] EXCEPT !.pc = "send", !.found = found]]
       \/ inv' = [inv EXCEPT ![p] = Failed(p, "hydrate")]
    /\ UNCHANGED <<blob, now, last, env, campaigns>>

\* sendJobEmail marking the batch in the store before the provider answers.
SendCampaign_MarkFirst(p) ==
    /\ inv[p].pc = "send"
    /\ \E ok \in BOOLEAN :
         LET guids == {inv[p].jobGuids[i] : i \in DOMAIN inv[p].jobGuids}
             out == markAsSent(blob, guids, now, TRUE, TRUE)
         IN /\ blob' = out.blob
            /\ campaigns' = IF ok THEN campaigns + 1 ELSE campaigns
            /\ inv' = [inv EXCEPT ![p] =
                         IF ok
                         THEN [inv[p] EXCEPT !.pc = "mark", !.sends = @ + 1,
                                 !.sent = TRUE, !.atSend = blob]
                         ELSE [Failed(p, "send") EXCEPT !.sends = @ + 1,
                                 !.atSend = blob]]
    /\ UNCHANGED <<now, last, env>>

\* email-service-v2.js 53-56 and sendCampaign (82-98): the provider sends
\* the campaign, or createCampaign / campaigns.send throws.
SendCampaign(p) ==
    /\ inv[p].pc = "send"
    /\ \E ok \in BOOLEAN :
         /\ campaigns' = IF ok THEN campaigns + 1 ELSE campaigns
         /\ inv' = [inv EXCEPT ![p] =
                      IF ok
                      THEN [inv[p] EXCEPT !.pc = "mark", !.sends = @ + 1,
                              !.sent = TRUE, !.atSend = blob]
                      ELSE [Failed(p, "send") EXCEPT !.sends = @ + 1, !.atSend = blob]]
    /\ UNCHANGED <<blob, now, last, env>>

\* sendJobEmail marking only the postings hydration found.
Mark_HydratedOnly(p) ==
    /\ inv[p].pc = "mark"
    /\ \E fault \in Faults :
         LET guids == {inv[p].jobGuids[i] : i \in 1..inv[p].found}
             out == markAsSent(blob, guids, now, fault # "read", fault # "write")
         IN /\ blob' = out.blob
            /\ inv' = [inv EXCEPT ![p] =
                         IF out.threw
                         THEN [Failed(p, "mark") EXCEPT !.marks = @ + 1]
                         ELSE [Finished(p, Result("sent", 0, "none", out.retBool))
                                 EXCEPT !.marks = @ + 1]]
    /\ UNCHANGED <<now, last, env, campaigns>>

\* email-service-v2.js 58-73: markAsSent(jobGuids) with the batch's guids;
\* scheduler lines 51-65: the 200 response.
Mark(p) ==
    /\ inv[p].pc = "mark"
    /\ \E fault \in Faults :
         LET guids == {inv[p].jobGuids[i] : i \in DOMAIN inv[p].jobGuids}
             out == markAsSent(blob, guids, now, fault # "read", fault # "write")
         IN /\ blob' = out.blob
            /\ inv' = [inv EXCEPT ![p] =
                         [(IF out.threw
                           THEN Failed(p, "mark")
                           ELSE Finished(p, Result("sent", 0, "none", out.retBool)))
                          EXCEPT !.marks = @ + 1,
                                 !.storeFault = @ \/ fault # "none"]]
    /\ UNCHANGED <<now, last, env, campaigns>>

\* The catch whose failed notification replaces the error it reports.
Notify_Rethrow(p) ==
    /\ inv[p].pc = "done"
    /\ inv[p].result.kind = "error"
    /\ inv[p].notice = "none"
    /\ \E admin \in BOOLEAN, delivered \in BOOLEAN :
         /\ delivered => admin /\ inv[p].result.failedAt # "config"
         /\ inv' = [inv EXCEPT
                      ![p].notice = IF ~admin THEN "off"
                                    ELSE IF delivered THEN "sent" ELSE "failed",
                      ![p].notices = IF admin THEN @ + 1 ELSE @,
                      ![p].result = IF admin /\ ~delivered
                                    THEN Result("error", 0, "notify", FALSE)
                                    ELSE @]
    /\ UNCHANGED <<blob, now, last, env, campaigns>>

\* The catch of schedulerHandler after the error is logged (lines 94-101):
\* with ADMIN_EMAIL set (admin) it constructs an EmailServiceV2 and awaits
\* sendErrorNotification, and whatever either throws is caught and logged.
\* The constructor throws again when it was the missing configuration that
\* failed the cycle.  `notice` is what became of the notification, and
\* `notices` counts the attempts; the 500 response of Failed follows.
Notify(p) ==
    /\ inv[p].pc = "done"
    /\ inv[p].result.kind = "error"
    /\ inv[p].notice = "none"
    /\ \E admin \in BOOLEAN, delivered \in BOOLEAN :
         /\ delivered => admin /\ inv[p].result.failedAt # "config"
         /\ inv' = [inv EXCEPT
                      ![p].notice = IF ~admin THEN "off"
                                    ELSE IF delivered THEN "sent" ELSE "failed",
                      ![p].notices = IF admin THEN @ + 1 ELSE @]
    /\ UNCHANGED <<blob, now, last, env, campaigns>>

\* The invocation has returned; the next trigger starts a new one.  What
\* stays behind is in the store; `retry` remembers, for the next invocation
\* only, the batch of a cycle whose send failed.
Finish(p) ==
    /\ inv[p].pc = "done"
    /\ inv' = [inv EXCEPT ![p] =
                 [IdleInv EXCEPT !.retry = IF inv[p].result.failedAt = "send"
                                           THEN inv[p].jobGuids ELSE <<>>]]
    /\ UNCHANGED <<blob, now, last, env, campaigns>>

\* JOB_THRESHOLD values of the deployment; 0 is unset (default 10).
Thresholds == 0..2

InitCycle ==
    /\ blob = <<>>
    /\ now = 1
    /\ last = NoCall
    /\ env \in Thresholds
    /\ campaigns = 0
    /\ inv = [p \in Procs |-> IdleInv]

\* `overlap` (another invocation was running when this one started) and
\* `storeFault` (a store call of this invocation met a failing get or set)
\* record how the invocation ran; no step reads them.

\* One invocation at a time (the deployment's single daily trigger).
NextCycle ==
    \/ Tick
    \/ Start(1)
    \/ Fetch(1)
    \/ Add(1)
    \/ Gate(1)
    \/ Batch(1)
    \/ Hydrate(1)
    \/ SendCampaign(1)
    \/ Mark(1)
    \/ Finish(1)

SpecCycle == InitCycle /\ [][NextCycle]_vars

\* Two invocations, each triggered once, with nothing that keeps the second
\* from starting while the first is running: the handler takes no lock, and
\* each invocation has its own JobQueueManager on the shared store.
NextOverlap ==
    \E p \in Procs :
        \/ Start(p)
        \/ Fetch(p)
        \/ Add(p)
        \/ Gate(p)
        \/ Batch(p)
        \/ Hydrate(p)
        \/ SendCampaign(p)
        \/ Mark(p)

SpecOverlap == InitCycle /\ [][NextOverlap]_vars

\* ------------------------------------------- the on-demand diagnostic cycle
\* The default export of test-latest-10-v2.js (5-153).  Its constructors,
\* its empty-feed test and its addNewJobs / getPendingCount are the
\* scheduler's (Start, Add); the rest is its own code.

\* const jobThreshold = 10 (test-latest-10-v2.js 41)
DiagThreshold == 10

\* The feed as the diagnostic run finds it: its first k postings.
DiagFeed(k) == [g \in 1..k |-> [guid |-> g, pubDate |-> PubDateOf(g)]]
DiagFeeds == {DiagFeed(k) : k \in 0..DiagThreshold}

\* Lines 19-32: fetchJobMetadata throws, or returns the feed's metadata.
DiagFetch(p) ==
    /\ inv[p].pc = "fetch"
    /\ \/ \E feed \in DiagFeeds :
            inv' = [inv EXCEPT ![p] =
                      IF Len(feed) = 0
                      THEN Finished(p, Result("noJobs", 0, "none", FALSE))
                      ELSE [inv[p] EXCEPT !.pc = "add", !.jobMetadata = feed]]
       \/ inv' = [inv EXCEPT ![p] = Failed(p, "fetch")]
    /\ UNCHANGED <<blob, now, last, env, campaigns>>

\* Lines 41-42 and 103-123: the test against the literal 10; below it the
\* handler reads a sample batch and reports how many are needed.
DiagGate(p) ==
    /\ inv[p].pc = "gate"
    /\ inv' = [inv EXCEPT ![p] =
                 IF inv[p].pendingCount >= DiagThreshold
                 THEN [inv[p] EXCEPT !.pc = "batch"]
                 ELSE Finished(p, Result("waiting",
                         DiagThreshold - inv[p].pendingCount, "none", FALSE))]
    /\ UNCHANGED <<blob, now, last, env, campaigns>>

\* Lines 45-53 and 93-102: getNextBatch(10) and the batch's guids.
DiagBatch(p) ==
    /\ inv[p].pc = "batch"
    /\ \E readOK \in BOOLEAN :
         LET jobsForEmail == getNextBatch(blob, DiagThreshold, now, readOK).retBatch IN
         inv' = [inv EXCEPT ![p] =
                   IF Len(jobsForEmail) > 0
                   THEN [inv[p] EXCEPT !.pc = "hydrate",
                           !.jobGuids = [i \in DOMAIN jobsForEmail |-> jobsForEmail[i].guid]]
                   ELSE Finished(p, Result("emptyBatch", 0, "none", FALSE))]
    /\ UNCHANGED <<blob, now, last, env, campaigns>>

\* Lines 54-61 and 82-92: fetchJobDetails throws, or finds `found` postings;
\* none found is a 200 response, and the HTML is generated from the rest.
DiagHydrate(p) ==
    /\ inv[p].pc = "hydrate"
    /\ \/ \E found \in {0, 1, Len(inv[p].jobGuids)} :
            inv' = [inv EXCEPT ![p] =
                      IF found = 0
                      THEN Finished(p, Result("noDetails", 0, "none", FALSE))
                      ELSE [inv[p] EXCEPT !.pc = "mark", !.found = found]]
       \/ inv' = [inv EXCEPT ![p] = Failed(p, "hydrate")]
    /\ UNCHANGED <<blob, now, last, env, campaigns>>

\* Lines 63-80: "SIMULATE EMAIL SEND": markAsSent(jobGuids) with the batch's
\* guids and no campaign; the HTML is the response.
DiagMark(p) ==
    /\ inv[p].pc = "mark"
    /\ \E fault \in Faults :
         LET guids == {inv[p].jobGuids[i] : i \in DOMAIN inv[p].jobGuids}
             out == markAsSent(blob, guids, now, fault # "read", fault # "write")
         IN /\ blob' = out.blob
            /\ inv' = [inv EXCEPT ![p] =
                         IF out.threw
                         THEN [Failed(p, "mark") EXCEPT !.marks = @ + 1]
                         ELSE [Finished(p, Result("simulated", 0, "none", out.retBool))
                                 EXCEPT !.marks = @ + 1]]
    /\ UNCHANGED <<now, last, env, campaigns>>

\* The handler returns: after the catch when the cycle met an error.
Returned(p) ==
    /\ inv[p].result.kind = "error" => inv[p].notice # "none"
    /\ Finish(p)

\* One invocation at a time, with the catch of the handler as a step of its
\* own (in the other specifications Finish stands for the catch too: the
\* notification changes nothing that a later step reads).
NextCatch ==
    \/ Start(1)
    \/ Fetch(1)
    \/ Add(1)
    \/ Gate(1)
    \/ Batch(1)
    \/ Hydrate(1)
    \/ SendCampaign(1)
    \/ Mark(1)
    \/ Notify(1)
    \/ Returned(1)

SpecCatch == InitCycle /\ [][NextCatch]_vars

\* Every awaited call of a running invocation returns or throws: the step
\* the invocation is at is taken.  Nothing obliges a trigger to come.
Running ==
    \/ Fetch(1)
    \/ Add(1)
    \/ Gate(1)
    \/ Batch(1)
    \/ Hydrate(1)
    \/ SendCampaign(1)
    \/ Mark(1)
    \/ Notify(1)

FairCatch == SpecCatch /\ WF_vars(Running)

\* One diagnostic invocation at a time, on demand.
NextDiag ==
    \/ Tick
    \/ Start(1)
    \/ DiagFetch(1)
    \/ Add(1)
    \/ DiagGate(1)
    \/ DiagBatch(1)
    \/ DiagHydrate(1)
    \/ DiagMark(1)
    \/ Finish(1)

SpecDiag == InitCycle /\ [][NextDiag]_vars

\* --------------------------------------------------- overlapping store calls
\* A queue-store call awaits store.get inside getJobQueue and store.setJSON
\* inside saveQueueData; the calls of two invocations interleave at these
\* awaits.  Each call is two steps here: the read that hands it a document,
\* and the rest of the call, applied to that document, with its save.
\* Overlapping calls run within one clock value, and addNewJobs is handed
\* the metadata of at most one posting.

\* The invocation can start a store call, and the in-flight call after the
\* read.
CanCall(p) ==
    /\ Idle
    /\ inv[p].pc = "idle"
    /\ inv[p].held.op = "none"
    /\ inv[p].calls < MaxCalls

Held(op, items, guids, n, readOK) ==
    [op |-> op, items |-> items, guids |-> guids, n |-> n,
     doc |-> getJobQueue(blob, now, readOK)]

\* const queueData = await this.getJobQueue() of addNewJobs (line 82).
ReadForAdd(p) ==
    \E jobMetadata \in SeqsUpTo(FeedItems, 1), readOK \in BOOLEAN :
        /\ CanCall(p)
        /\ inv' = [inv EXCEPT
                     ![p].held = Held("addNewJobs", jobMetadata, {}, 0, readOK),
                     ![p].calls = @ + 1]
        /\ UNCHANGED <<blob, now, last, env, campaigns>>

\* ... of markAsSent (line 147), called with one guid or with all of them.
\* (A failed read hands markAsSent and cleanupOldJobs the empty queue, in
\* which they find nothing to change and nothing to save.)
ReadForMark(p) ==
    \E guids \in {{g} : g \in Guids} \cup {Guids} :
        /\ CanCall(p)
        /\ inv' = [inv EXCEPT
                     ![p].held = Held("markAsSent", <<>>, guids, 0, TRUE),
                     ![p].calls = @ + 1]
        /\ UNCHANGED <<blob, now, last, env, campaigns>>

\* ... of cleanupOldJobs (line 237).
ReadForCleanup(p) ==
    \E daysOld \in Days :
        /\ CanCall(p)
        /\ inv' = [inv EXCEPT
                     ![p].held = Held("cleanupOldJobs", <<>>, {}, daysOld, TRUE),
                     ![p].calls = @ + 1]
        /\ UNCHANGED <<blob, now, last, env, campaigns>>

\* The call from its read on, run on the document it holds at time t.
Continue(h, t, writeOK) ==
    CASE h.op = "addNewJobs" -> addNewJobs(<<h.doc>>, h.items, t, TRUE, writeOK)
      [] h.op = "markAsSent" -> markAsSent(<<h.doc>>, h.guids, t, TRUE, writeOK)
      [] OTHER -> cleanupOldJobs(<<h.doc>>, h.n, t, TRUE, writeOK, TRUE)

\* The rest of the call: the document is changed in memory and, when the
\* call has something to save, saveQueueData puts it in the store.
Save(p) ==
    \E writeOK \in BOOLEAN :
        LET h == inv[p].held
            out == Continue(h, now, writeOK)
        IN
        /\ Idle
        /\ h.op # "none"
        /\ Len(out.retDoc.jobQueue) <= MaxQueue
        /\ out.retDoc.totalJobsProcessed <= MaxTotal
        /\ blob' = IF out.wrote THEN saveQueueData(blob, out.retDoc) ELSE blob
        /\ last' = [op |-> h.op, items |-> h.items, guids |-> h.guids, n |-> h.n,
                    fault |-> IF writeOK THEN "none" ELSE "write",
                    before |-> blob, read |-> h.doc, out |-> out,
                    stats |-> NoStats]
        /\ inv' = [inv EXCEPT ![p].held = NoHeld]
        /\ UNCHANGED <<now, env, campaigns>>

NextWrites ==
    \/ Return
    \/ \E p \in Procs :
        \/ ReadForAdd(p)
        \/ ReadForMark(p)
        \/ ReadForCleanup(p)
        \/ Save(p)

SpecWrites == Init /\ [][NextWrites]_vars

\* ------------------------------------------------ cycles with nothing failing
\* Invocations one after another in which the configuration is there, the
\* feed answers with at least one posting, no store call fails and the mail
\* provider sends.  Hydration reads the feed again (fetchJobDetails,
\* job-queue-manager.js 547-592) and finds the items whose guid is in the
\* batch: what it finds depends on what the feed lists by then.
SunnyStart(p) == Start(p) /\ inv'[p].pc = "fetch"
SunnyFetch(p) == Fetch(p) /\ inv'[p].pc = "add"
SunnyAdd(p) == Add(p) /\ ~inv'[p].storeFault
SunnyBatch(p) == Batch(p) /\ ~inv'[p].storeFault
SunnySend(p) == SendCampaign(p) /\ inv'[p].sent
SunnyMark(p) == Mark(p) /\ ~inv'[p].storeFault

\* email-service-v2.js 41-45 with fetchJobDetails reading `feed`.
FeedHydrate(p) ==
    /\ inv[p].pc = "hydrate"
    /\ \E feed \in Feeds \ {<<>>} :
         LET guidSet == {inv[p].jobGuids[i] : i \in DOMAIN inv[p].jobGuids}
             matchedJobs == SelectSeq(feed, LAMBDA item : item.guid \in guidSet)
         IN inv' = [inv EXCEPT ![p] =
                      IF Len(matchedJobs) = 0 THEN Failed(p, "hydrate")
                      ELSE [inv[p] EXCEPT !.pc = "send", !.found = Len(matchedJobs)]]
    /\ UNCHANGED <<blob, now, last, env, campaigns>>

NextSunny ==
    \/ SunnyStart(1)
    \/ SunnyFetch(1)
    \/ SunnyAdd(1)
    \/ Gate(1)
    \/ SunnyBatch(1)
    \/ FeedHydrate(1)
    \/ SunnySend(1)
    \/ SunnyMark(1)
    \/ Finish(1)

SpecSunny == InitCycle /\ [][NextSunny]_vars

\* The trigger keeps coming and every awaited call settles.
FairSunny == SpecSunny /\ WF_vars(NextSunny)

\* ---------------------------------------------------- store calls, tallied
\* addNewJobs, markAsSent and cleanupOldJobs one after another with the store
\* answering every read and write.  inv[1].removed counts the records
\* cleanupOldJobs has taken out of the persisted queue, inv[1].transitions the
\* records markAsSent has turned from pending to sent in it.
Records(b) == IF b = <<>> THEN <<>> ELSE b[1].jobQueue

TallyAdd ==
    \E jobMetadata \in Inputs :
        LET out == addNewJobs(blob, jobMetadata, now, TRUE, TRUE) IN
        /\ Idle
        /\ Len(out.retDoc.jobQueue) <= MaxQueue
        /\ out.retDoc.totalJobsProcessed <= MaxTotal
        /\ blob' = out.blob
        /\ UNCHANGED <<now, last, cycleVars>>

TallyMark ==
    \E guids \in SUBSET Guids :
        LET out == markAsSent(blob, guids, now, TRUE, TRUE)
            turned == {i \in DOMAIN Records(blob) :
                         /\ Records(blob)[i].status = "pending"
                         /\ Records(out.blob)[i].status = "sent"}
        IN
        /\ Idle
        /\ blob' = out.blob
        /\ inv' = [inv EXCEPT ![1].transitions = @ + Cardinality(turned)]
        /\ UNCHANGED <<now, last, env, campaigns>>

TallyCleanup ==
    \E daysOld \in Days :
        LET out == cleanupOldJobs(blob, daysOld, now, TRUE, TRUE, TRUE) IN
        /\ Idle
        /\ blob' = out.blob
        /\ inv' = [inv EXCEPT ![1].removed =
                     @ + Len(Records(blob)) - Len(Records(out.blob))]
        /\ UNCHANGED <<now, last, env, campaigns>>

NextTally == Tick \/ TallyAdd \/ TallyMark \/ TallyCleanup

SpecTally == Init /\ [][NextTally]_vars

\* ------------------------------------------------- store calls, remembered
\* The store calls of Spec, with `mailed` of invocation 1 keeping the guids
\* that markAsSent calls have transitioned to sent so far.

\* Guids of the records the markAsSent call in `last` transitioned.
Transitioned ==
    IF last.op = "markAsSent" /\ last.out.wrote
    THEN {last.read.jobQueue[i].guid :
            i \in {k \in DOMAIN last.read.jobQueue :
                     /\ last.read.jobQueue[k].guid \in last.guids
                     /\ last.read.jobQueue[k].status = "pending"}}
    ELSE {}

\* The caller takes the result; what the call retired is remembered.
Remember ==
    /\ ~Idle
    /\ last' = NoCall
    /\ inv' = [inv EXCEPT ![1].mailed = @ \cup Transitioned]
    /\ UNCHANGED <<blob, now, env, campaigns>>

NextRemember ==
    \/ Tick
    \/ AddNewJobs
    \/ MarkAsSent
    \/ CleanupOldJobs
    \/ Remember

SpecRemember == Init /\ [][NextRemember]_vars

\* ------------------------------------------------- the original scheduler
\* The JobStorage-based handler (test-latest-10-v2.js 154-227) with
\* JobStorage (job-queue-manager.js 265-464), RSSParser.fetchNewJobs
\* (rss-parser.js 23-47) and MailchimpSender.sendJobCampaign
\* (mailchimp-sender.js 29-54).  The 'accumulated-jobs' key holds an array
\* of jobs; here `blob` is that key, <<>> when it is absent, and a job is
\* its id (the md5 of link and title, the same for a posting every day).

\* storedJobs.length >= 10 (test-latest-10-v2.js 181)
LegacyThreshold == 10

\* fetchNewJobs returns every item of the feed, parsed: the feed's first k
\* postings.
LegacyFeed(k) == [i \in 1..k |-> [id |-> i]]
LegacyFeeds == {LegacyFeed(k) : k \in 0..LegacyThreshold}

IdsOf(jobs) == {jobs[i].id : i \in DOMAIN jobs}

\* getStoredJobs(): job-queue-manager.js 299-320; a failed read gives [].
getStoredJobs(b, readOK) == IF readOK /\ b # <<>> THEN b[1] ELSE <<>>

\* addJobs(newJobs): job-queue-manager.js 322-366.
addJobs(b, newJobs, readOK, writeOK) ==
    LET existingJobs == getStoredJobs(b, readOK)
        Unique(job) == job.id \notin IdsOf(existingJobs)
        uniqueNewJobs == SelectSeq(newJobs, Unique)
        updatedJobs == existingJobs \o uniqueNewJobs
    IN IF Len(newJobs) = 0 \/ Len(uniqueNewJobs) = 0
       THEN [blob |-> b, jobs |-> existingJobs, threw |-> FALSE]
       ELSE IF writeOK
       THEN [blob |-> <<updatedJobs>>, jobs |-> updatedJobs, threw |-> FALSE]
       ELSE [blob |-> b, jobs |-> updatedJobs, threw |-> TRUE]

\* Lines 167-176: fetchNewJobs throws, or returns the feed's jobs.
LegacyFetch(p) ==
    /\ inv[p].pc = "fetch"
    /\ \/ \E feed \in LegacyFeeds :
            inv' = [inv EXCEPT ![p] =
                      IF Len(feed) = 0
                      THEN Finished(p, Result("noJobs", 0, "none", FALSE))
                      ELSE [inv[p] EXCEPT !.pc = "add", !.jobMetadata = feed]]
       \/ inv' = [inv EXCEPT ![p] = Failed(p, "fetch")]
    /\ UNCHANGED <<blob, now, last, env, campaigns>>

\* Lines 178-181 and 194-201: addJobs, then the test against 10; below it
\* the handler reports how many more are needed.
LegacyAdd(p) ==
    /\ inv[p].pc = "add"
    /\ \E fault \in Faults :
         LET out == addJobs(blob, inv[p].jobMetadata, fault # "read", fault # "write")
             ids == [i \in DOMAIN out.jobs |-> out.jobs[i].id]
         IN
         /\ blob' = out.blob
         /\ inv' = [inv EXCEPT ![p] =
                      IF out.threw THEN Failed(p, "add")
                      ELSE IF Len(out.jobs) >= LegacyThreshold
                      THEN [inv[p] EXCEPT !.pc = "send", !.jobGuids = ids,
                                          !.pendingCount = Len(out.jobs)]
                      ELSE [Finished(p, Result("waiting",
                                               LegacyThreshold - Len(out.jobs),
                                               "none", FALSE))
                              EXCEPT !.pendingCount = Len(out.jobs)]]
    /\ UNCHANGED <<now, last, env, campaigns>>

\* The handler clearing the storage before it sends.
LegacySend_ClearFirst(p) ==
    /\ inv[p].pc = "send"
    /\ blob' = <<>>
    /\ \/ /\ campaigns' = campaigns + 1
          /\ inv' = [inv EXCEPT ![p] =
                       [inv[p] EXCEPT !.pc = "clear", !.sent = TRUE, !.sends = @ + 1]]
       \/ /\ campaigns' = campaigns
          /\ inv' = [inv EXCEPT ![p] =
                       [Failed(p, "send") EXCEPT !.sends = @ + 1]]
    /\ UNCHANGED <<now, last, env>>

\* Line 183: sendJobCampaign(storedJobs) sends the campaign, or throws.
LegacySend(p) ==
    /\ inv[p].pc = "send"
    /\ \/ /\ campaigns' = campaigns + 1
          /\ inv' = [inv EXCEPT ![p] =
                       [inv[p] EXCEPT !.pc = "clear", !.sent = TRUE, !.sends = @ + 1]]
       \/ /\ campaigns' = campaigns
          /\ inv' = [inv EXCEPT ![p] =
                       [Failed(p, "send") EXCEPT !.sends = @ + 1]]
    /\ UNCHANGED <<blob, now, last, env>>

\* Line 184: clearJobs() deletes the key, or throws (job-queue-manager.js
\* 368-386).
LegacyClear(p) ==
    /\ inv[p].pc = "clear"
    /\ \/ /\ blob' = <<>>
          /\ inv' = [inv EXCEPT ![p] =
                       Finished(p, Result("sent", 0, "none", TRUE))]
       \/ /\ blob' = blob
          /\ inv' = [inv EXCEPT ![p] = Failed(p, "clear")]
    /\ UNCHANGED <<now, last, env, campaigns>>

\* The invocation has returned.  `mailed` keeps, for the invocations to come,
\* the ids of the jobs that campaigns have carried so far.
LegacyFinish(p) ==
    /\ inv[p].pc = "done"
    /\ inv' = [inv EXCEPT ![p] =
                 [IdleInv EXCEPT !.mailed =
                    inv[p].mailed \cup
                      (IF inv[p].sent
                       THEN {inv[p].jobGuids[i] : i \in DOMAIN inv[p].jobGuids}
                       ELSE {})]]
    /\ UNCHANGED <<blob, now, last, env, campaigns>>

\* One invocation a day (schedule('0 9 * * *', handler)).
NextLegacy ==
    \/ Start(1)
    \/ LegacyFetch(1)
    \/ LegacyAdd(1)
    \/ LegacySend(1)
    \/ LegacyClear(1)
    \/ LegacyFinish(1)

SpecLegacy == Init /\ [][NextLegacy]_vars

\* ------------------------------------------------ reading a stored document
\* getJobQueue on whatever JSON the key holds, not only on documents that
\* saveQueueData wrote.  A JSON value is a tagged record; an ISO timestamp
\* string has the tag "time" and the clock value as its content.
Undefined == [t |-> "undefined", v |-> 0]
Num(n) == [t |-> "number", v |-> n]
Str(s) == [t |-> "string", v |-> s]
Time(n) == [t |-> "time", v |-> n]
Arr(q) == [t |-> "array", v |-> q]
Obj(fields) == [t |-> "object", v |-> fields]

\* JavaScript truthiness, as `!data` and `x || default` test it.
Truthy(x) ==
    CASE x.t = "undefined" -> FALSE
      [] x.t = "number" -> x.v # 0
      [] x.t = "string" -> x.v # ""
      [] OTHER -> TRUE

\* data.name: the field of an object, undefined on any other value.
Field(data, name) == IF data.t = "object" THEN data.v[name] ELSE Undefined

\* getEmptyQueue(): job-queue-manager.js 66-73, as JSON.
getEmptyQueueJson(t) ==
    [jobQueue |-> Arr(<<>>), lastProcessed |-> Time(t), emailsSent |-> Num(0),
     totalJobsProcessed |-> Num(0)]

\* normalizeQueueData(data): job-queue-manager.js 55-64, on any JSON value.
normalizeQueueDataJson(data, t) ==
    IF ~Truthy(data) THEN getEmptyQueueJson(t)
    ELSE [jobQueue |-> IF Field(data, "jobQueue").t = "array"
                       THEN Field(data, "jobQueue") ELSE Arr(<<>>),
          lastProcessed |-> IF Truthy(Field(data, "lastProcessed"))
                            THEN Field(data, "lastProcessed") ELSE Time(t),
          emailsSent |-> IF Truthy(Field(data, "emailsSent"))
                         THEN Field(data, "emailsSent") ELSE Num(0),
          totalJobsProcessed |-> IF Truthy(Field(data, "totalJobsProcessed"))
                                 THEN Field(data, "totalJobsProcessed") ELSE Num(0)]

\* getJobQueue(): job-queue-manager.js 33-53.  store.get throws (retrieval
\* or JSON parse error) and the catch answers; or it returns null and the
\* empty fallback of the instance is normalized; or it returns the value.
getJobQueueJson(stored, t, getOK) ==
    IF ~getOK THEN getEmptyQueueJson(t)
    ELSE IF stored = <<>> THEN normalizeQueueDataJson(Undefined, t)
    ELSE normalizeQueueDataJson(stored[1], t)

\* Values the key can hold: nothing, a string, or an object whose fields are
\* each absent, well-formed, falsy, or of another type.
StoredJobQueues ==
    {Undefined, Str("jobs"), Arr(<<>>),
     Arr(<<[guid |-> 1, pubDate |-> 1, status |-> "pending", sentAt |-> NoDate]>>)}
StoredTimes == {Undefined, Str(""), Time(1), Str("yesterday")}
StoredCounts == {Undefined, Num(0), Num(2), Str("2")}
StoredValues ==
    {<<>>, <<Str("job-queue")>>} \cup
    {<<Obj(d)>> : d \in [jobQueue : StoredJobQueues, lastProcessed : StoredTimes,
                         emailsSent : StoredCounts,
                         totalJobsProcessed : StoredCounts]}

InitJson ==
    /\ blob \in StoredValues
    /\ now = 1
    /\ last = NoCall
    /\ env = 0
    /\ campaigns = 0
    /\ inv = [p \in Procs |-> IdleInv]

\* A caller awaits getJobQueue(): `last` takes what it is handed.
GetJobQueueJson ==
    \E getOK \in BOOLEAN :
        /\ Idle
        /\ last' = [NoCall EXCEPT !.op = "getJobQueue",
                                  !.fault = IF getOK THEN "none" ELSE "read",
                                  !.before = blob,
                                  !.read = getJobQueueJson(blob, now, getOK)]
        /\ UNCHANGED <<blob, now, cycleVars>>

NextJson ==
    \/ Tick
    \/ GetJobQueueJson
    \/ Return

SpecJson == InitJson /\ [][NextJson]_vars

\* ============================================================== properties

QueueOf(b) == IF b = <<>> THEN <<>> ELSE b[1].jobQueue
TotalOf(b) == IF b = <<>> THEN 0 ELSE b[1].totalJobsProcessed
EmailsSentOf(b) == IF b = <<>> THEN 0 ELSE b[1].emailsSent
Called(op) == last.op = op

\* Indices of q whose record markAsSent(guids) has to transition.
ToMark(q, guids) == {i \in DOMAIN q : q[i].guid \in guids /\ q[i].status = "pending"}

\* ---- C2  Idempotent enqueue: no two records of the persisted jobQueue
\* share a guid, whatever addNewJobs, markAsSent and cleanupOldJobs calls
\* were made (a guid given twice in one addNewJobs list is stored once).
C2_GuidUnique ==
    \A i, j \in DOMAIN QueueOf(blob) :
        QueueOf(blob)[i].guid = QueueOf(blob)[j].guid => i = j

\* ---- C3  One-way status: no queue-store call turns a persisted record
\* that is sent back into pending or rewrites its sentAt: a guid persisted
\* as sent before the call is, if still in the queue after it, the same
\* sent record.
C3_OneWayStatus ==
    ~Called("none") =>
        \A i \in DOMAIN QueueOf(last.before), j \in DOMAIN QueueOf(blob) :
            LET old == QueueOf(last.before)[i]
                new == QueueOf(blob)[j]
            IN old.status = "sent" /\ new.guid = old.guid => new = old

\* ---- C5  Mark-sent exactness: of the queue it obtained, markAsSent(guids)
\* turns exactly the pending records named by guids into sent records
\* stamped with the current time and leaves every other record as it was;
\* guids that name no record raise nothing (only a failed save throws); it
\* returns true iff it transitioned a record, and the store then holds the
\* result.
C5_MarkExact ==
    Called("markAsSent") =>
        LET q == last.read.jobQueue
            hit == ToMark(q, last.guids)
        IN /\ last.out.threw <=> (hit # {} /\ last.fault = "write")
           /\ last.out.threw => blob = last.before
           /\ ~last.out.threw =>
                /\ last.out.retBool <=> hit # {}
                /\ hit = {} => blob = last.before
                /\ hit # {} =>
                     /\ Len(QueueOf(blob)) = Len(q)
                     /\ \A i \in DOMAIN q :
                          QueueOf(blob)[i] =
                            IF i \in hit
                            THEN [guid |-> q[i].guid, pubDate |-> q[i].pubDate,
                                  status |-> "sent", sentAt |-> now]
                            ELSE q[i]

\* A markAsSent call that transitioned the record it named, left another
\* pending record alone and left alone a named record sent earlier.
C5_Witness ==
    /\ Called("markAsSent")
    /\ last.out.retBool
    /\ \E i, j, k \in DOMAIN QueueOf(blob) :
         /\ QueueOf(last.before)[i].status = "pending"
         /\ QueueOf(blob)[i].status = "sent"
         /\ QueueOf(blob)[j].status = "pending"
         /\ QueueOf(blob)[j].guid \notin last.guids
         /\ QueueOf(last.before)[k].status = "sent"
         /\ QueueOf(blob)[k].guid \in last.guids
         /\ QueueOf(blob)[k].sentAt < now

\* ---- C6  Mark-sent no-op: markAsSent with no guids, or with guids that
\* name only absent or already sent records of the persisted queue, returns
\* false, does not throw, writes nothing, and leaves the document (records,
\* emailsSent, lastProcessed) as it was.
C6_MarkNoOp ==
    Called("markAsSent") /\ ToMark(QueueOf(last.before), last.guids) = {} =>
        /\ ~last.out.retBool
        /\ ~last.out.threw
        /\ ~last.out.wrote
        /\ blob = last.before

\* A markAsSent call naming an already sent record and an absent guid.
C6_Witness ==
    /\ Called("markAsSent")
    /\ last.fault = "none"
    /\ ToMark(QueueOf(last.before), last.guids) = {}
    /\ \E i \in DOMAIN QueueOf(blob) :
         QueueOf(blob)[i].guid \in last.guids /\ QueueOf(blob)[i].status = "sent"
    /\ \E g \in last.guids : g \notin GuidsOf(QueueOf(blob))
    /\ \E i \in DOMAIN QueueOf(blob) : QueueOf(blob)[i].status = "pending"

\* ---- C7  FIFO batch order: getNextBatch(n) returns min(n, pending)
\* records of the queue it obtained, all pending, taken at increasing
\* (pubDate, queue position), and every pending record left out comes after
\* every record taken in that order; the call writes nothing.
C7_FifoBatch ==
    Called("getNextBatch") =>
        LET q == last.read.jobQueue
            batch == last.out.retBatch
            pending == {i \in DOMAIN q : q[i].status = "pending"}
            Before(i, j) == \/ q[i].pubDate < q[j].pubDate
                            \/ q[i].pubDate = q[j].pubDate /\ i < j
        IN /\ Len(batch) = IF last.n < Cardinality(pending) THEN last.n
                           ELSE Cardinality(pending)
           /\ \E at \in [DOMAIN batch -> pending] :
                /\ \A k \in DOMAIN batch : batch[k] = q[at[k]]
                /\ \A k, l \in DOMAIN batch : k < l => Before(at[k], at[l])
                /\ \A k \in DOMAIN batch, j \in pending :
                     j \notin {at[m] : m \in DOMAIN batch} => Before(at[k], j)
           /\ ~last.out.wrote
           /\ ~last.out.threw
           /\ blob = last.before

\* getNextBatch(2) on three pending records stored newest first with a tie:
\* the batch reorders them and keeps the tie's insertion order.
C7_Witness ==
    /\ Called("getNextBatch")
    /\ last.fault = "none"
    /\ last.n = 2
    /\ Len(QueueOf(blob)) = 3
    /\ \A i \in DOMAIN QueueOf(blob) : QueueOf(blob)[i].status = "pending"
    /\ QueueOf(blob)[1].pubDate = QueueOf(blob)[2].pubDate
    /\ QueueOf(blob)[3].pubDate < QueueOf(blob)[1].pubDate
    /\ last.out.retBatch = <<QueueOf(blob)[3], QueueOf(blob)[1]>>

\* ---- C9  totalJobsProcessed is monotonic: no call lowers the persisted
\* totalJobsProcessed; addNewJobs raises it by the number of records it
\* appended, markAsSent and cleanupOldJobs leave it alone.
C9_TotalMonotonic ==
    /\ ~Called("none") => TotalOf(blob) >= TotalOf(last.before)
    /\ Called("addNewJobs") /\ last.out.wrote =>
         TotalOf(blob) - TotalOf(last.before)
           = Len(QueueOf(blob)) - Len(QueueOf(last.before))
    /\ Called("markAsSent") \/ Called("cleanupOldJobs") =>
         TotalOf(blob) = TotalOf(last.before)

\* ---- C10  Cleanup retains pending.
\* Indices of q that cleanupOldJobs(daysOld) at time t removes: the sent
\* records stamped at or before t - daysOld (Old), and as the claim words
\* it, those stamped before t - daysOld (Older).
Old(q, daysOld, t) ==
    {i \in DOMAIN q : q[i].status = "sent" /\ q[i].sentAt # NoDate
                       /\ q[i].sentAt <= t - daysOld}
Older(q, daysOld, t) ==
    {i \in DOMAIN q : q[i].status = "sent" /\ q[i].sentAt # NoDate
                       /\ q[i].sentAt < t - daysOld}

RECURSIVE Without(_, _)
Without(q, gone) ==
    IF q = <<>> THEN <<>>
    ELSE LET front == Without(SubSeq(q, 1, Len(q) - 1), gone)
         IN IF Len(q) \in gone THEN front ELSE Append(front, q[Len(q)])

\* cleanupOldJobs removed exactly the records `gone` of the queue it
\* obtained: it wrote only if gone is not empty, and the store then holds
\* the queue without them (every pending record still in place); a call that
\* did not write left the store as it was, and that happens only when
\* nothing was to remove or the save failed.
CleanupRemoves(gone) ==
    /\ last.out.wrote => gone # {}
    /\ last.out.wrote =>
         blob = <<[last.read EXCEPT !.jobQueue = Without(last.read.jobQueue, gone)]>>
    /\ ~last.out.wrote => blob = last.before /\ (gone = {} \/ last.fault = "write")
    /\ ~last.out.threw

\* The claim as worded: exactly the sent records older than the cutoff go.
C10_CleanupOlder ==
    Called("cleanupOldJobs") =>
        CleanupRemoves(Older(last.read.jobQueue, last.n, now))

\* Amended: exactly the sent records stamped at or before the cutoff go.
C10_CleanupOld ==
    Called("cleanupOldJobs") =>
        CleanupRemoves(Old(last.read.jobQueue, last.n, now))

\* cleanupOldJobs(0) removed an old sent record and kept an old pending one
\* and a sent record is gone from a queue of more than one record.
C10_Witness ==
    /\ Called("cleanupOldJobs")
    /\ last.n = 0
    /\ last.out.wrote
    /\ Len(QueueOf(last.before)) = Len(QueueOf(blob)) + 1
    /\ \E i \in DOMAIN QueueOf(last.before) :
         /\ QueueOf(last.before)[i].status = "sent"
         /\ QueueOf(last.before)[i].sentAt < now
    /\ \E j \in DOMAIN QueueOf(blob) : QueueOf(blob)[j].status = "pending"

\* ---- C1  Send-then-mark ordering: in a dispatch cycle markAsSent is
\* called only once the campaign send has succeeded; when the sender throws,
\* markAsSent is not called in that cycle and every record that was pending
\* when the send was attempted is the same pending record in the store when
\* the cycle ends.
C1_SendThenMark ==
    \A p \in Procs :
        /\ inv[p].pc = "mark" \/ inv[p].marks > 0 => inv[p].sent
        /\ inv[p].pc = "done" /\ inv[p].result.failedAt = "send" =>
             /\ inv[p].marks = 0
             /\ \A i \in DOMAIN QueueOf(inv[p].atSend) :
                  QueueOf(inv[p].atSend)[i].status = "pending" =>
                      /\ i \in DOMAIN QueueOf(blob)
                      /\ QueueOf(blob)[i] = QueueOf(inv[p].atSend)[i]

\* A cycle that reached the threshold, selected a batch, and whose sender
\* threw: it has ended with its batch pending in the store.
C1_Witness ==
    /\ inv[1].pc = "done"
    /\ inv[1].result.failedAt = "send"
    /\ inv[1].sends = 1
    /\ Len(inv[1].jobGuids) = 2
    /\ inv[1].jobGuids[1] # inv[1].jobGuids[2]
    /\ \A i \in DOMAIN inv[1].jobGuids :
         \E j \in DOMAIN QueueOf(blob) :
            /\ QueueOf(blob)[j].guid = inv[1].jobGuids[i]
            /\ QueueOf(blob)[j].status = "pending"

\* ---- C4  Threshold gate: a cycle whose pending count, taken from the
\* state addNewJobs returned, is below the threshold never invokes the
\* sender and never calls markAsSent; it ends reporting
\* needed = threshold - pendingCount and the store is as addNewJobs left it.
C4_ThresholdGate ==
    \A p \in Procs :
        /\ \/ inv[p].pc \in {"batch", "hydrate", "send", "mark"}
           \/ inv[p].sends > 0
           \/ inv[p].marks > 0
           => inv[p].pendingCount >= jobThreshold
        /\ inv[p].pc = "done" /\ inv[p].result.kind \in {"waiting", "emptyBatch", "sent"}
             /\ inv[p].pendingCount < jobThreshold =>
               /\ inv[p].result.kind = "waiting"
               /\ inv[p].result.needed = jobThreshold - inv[p].pendingCount
               /\ inv[p].sends = 0
               /\ inv[p].marks = 0
               /\ blob = inv[p].afterAdd

\* A cycle with threshold 2 that found one pending record: it reports one
\* more needed, and a campaign of an earlier cycle is the only one sent.
C4_Witness ==
    /\ inv[1].pc = "done"
    /\ inv[1].result.kind = "waiting"
    /\ env = 2
    /\ inv[1].pendingCount = 1
    /\ inv[1].result.needed = 1
    /\ campaigns = 1

\* ---- C8  emailsSent counts completed send transactions: between dispatch
\* cycles the persisted emailsSent equals the number of campaigns sent.
C8_EmailsSentIsCampaigns ==
    inv[1].pc \in {"idle", "done"} => EmailsSentOf(blob) = campaigns

\* ---- C11  Stats never throw: getQueueStats does not raise, and when the
\* storage read fails the object it returns is zeroed (totalJobs 0,
\* pendingJobs 0, sentJobs 0) and carries an error field.
C11_StatsCarryError ==
    Called("getQueueStats") /\ last.fault = "read" =>
        /\ ~last.out.threw
        /\ last.stats.totalJobs = 0
        /\ last.stats.pendingJobs = 0
        /\ last.stats.sentJobs = 0
        /\ last.stats.error

\* The call just made reached saveQueueData: with the store answering it
\* would have saved.
ReachedSave ==
    \/ Called("addNewJobs")
         /\ addNewJobs(last.before, last.items, now, TRUE, TRUE).wrote
    \/ Called("markAsSent")
         /\ markAsSent(last.before, last.guids, now, TRUE, TRUE).wrote
    \/ Called("cleanupOldJobs")
         /\ cleanupOldJobs(last.before, last.n, now, TRUE, TRUE, TRUE).wrote

\* ---- C12  Write failures surface and do not corrupt: when the store
\* write of addNewJobs, markAsSent or cleanupOldJobs throws, the call raises
\* to its caller and the persisted document is what it was before the call.
C12_WriteFailureSurfaces ==
    last.fault = "write" /\ ReachedSave =>
        /\ last.out.threw
        /\ blob = last.before

\* The guids getNextBatch(jobThreshold) selects from the persisted queue.
NextBatchGuids ==
    LET batch == getNextBatch(blob, jobThreshold, now, TRUE).retBatch
    IN [i \in DOMAIN batch |-> batch[i].guid]

\* ---- C13  Retry after send failure.
\* As worded: the invocation that follows a cycle whose send failed selects,
\* when it calls getNextBatch(threshold), the batch of that cycle again.
C13_NextSelectsSameBatch ==
    \A p \in Procs :
        /\ inv[p].retry # <<>>
        /\ \/ inv[p].pc = "hydrate"
           \/ inv[p].pc = "done" /\ inv[p].result.kind = "emptyBatch"
        => inv[p].jobGuids = inv[p].retry

\* Amended: a cycle whose send failed ends as a failure with no markAsSent
\* call and the store as it was at the send attempt, and
\* getNextBatch(threshold) on the queue it leaves behind selects the same
\* batch again.
C13_RetryAfterSendFailure ==
    \A p \in Procs :
        inv[p].pc = "done" /\ inv[p].result.failedAt = "send" =>
            /\ inv[p].result.kind = "error"
            /\ inv[p].marks = 0
            /\ blob = inv[p].atSend
            /\ NextBatchGuids = inv[p].jobGuids

\* A failed send of a two-posting batch taken from three pending records.
C13_Witness ==
    /\ inv[1].pc = "done"
    /\ inv[1].result.failedAt = "send"
    /\ Len(inv[1].jobGuids) = 2
    /\ getPendingCount(getJobQueue(blob, now, TRUE)) = 3

\* ---- C14  Post-send mark failure leaves the batch pending: a cycle whose
\* campaign was sent and whose markAsSent then raised (its save failed) ends
\* with the campaign out, the store as it was at the send (every record of
\* the batch pending, emailsSent not incremented), and the batch's guids are
\* what getNextBatch(threshold) selects from that store.
C14_MarkFailureLeavesPending ==
    \A p \in Procs :
        inv[p].pc = "done" /\ inv[p].result.failedAt = "mark" =>
            /\ inv[p].sent
            /\ campaigns >= 1
            /\ blob = inv[p].atSend
            /\ EmailsSentOf(blob) = EmailsSentOf(inv[p].atSend)
            /\ \A i \in DOMAIN inv[p].jobGuids :
                 \E j \in DOMAIN QueueOf(blob) :
                    QueueOf(blob)[j].guid = inv[p].jobGuids[i]
            /\ \A j \in DOMAIN QueueOf(blob) :
                 (\E i \in DOMAIN inv[p].jobGuids :
                     QueueOf(blob)[j].guid = inv[p].jobGuids[i])
                 => QueueOf(blob)[j].status = "pending"
            /\ NextBatchGuids = inv[p].jobGuids

\* The first campaign is out, its two postings are pending and no email is
\* counted.
C14_Witness ==
    /\ inv[1].pc = "done"
    /\ inv[1].result.failedAt = "mark"
    /\ campaigns = 1
    /\ EmailsSentOf(blob) = 0
    /\ Len(inv[1].jobGuids) = 2
    /\ inv[1].jobGuids[1] # inv[1].jobGuids[2]

\* What a response says went wrong: its status, its error label and the
\* outermost message.
Classification(response) ==
    <<response.statusCode, response.error, Head(response.message)>>

\* ---- C15  Post-send mark failure is reported distinctly: a cycle whose
\* send succeeded and whose markAsSent raised ends with a response that is
\* classified differently from the response of a cycle whose send failed.
C15_MarkFailureDistinct ==
    \A p \in Procs :
        inv[p].pc = "done" /\ inv[p].result.failedAt = "mark" =>
            Classification(Response(inv[p].result))
                # Classification(Response(Result("error", 0, "send", FALSE)))

\* Every record of the persisted queue whose guid is in the batch of p is
\* sent, and every guid of the batch has a record.
BatchRetired(p) ==
    /\ \A i \in DOMAIN inv[p].jobGuids :
         \E j \in DOMAIN QueueOf(blob) : QueueOf(blob)[j].guid = inv[p].jobGuids[i]
    /\ \A j \in DOMAIN QueueOf(blob) :
         (\E i \in DOMAIN inv[p].jobGuids : QueueOf(blob)[j].guid = inv[p].jobGuids[i])
         => QueueOf(blob)[j].status = "sent" /\ QueueOf(blob)[j].sentAt # NoDate

\* ---- C16  Partial hydration retires the whole batch: a cycle whose
\* hydration found at least one but fewer postings than the batch has guids
\* does not abort at hydration; it sends the campaign, calls markAsSent once
\* after the send, and when that markAsSent has marked (returned true) every
\* record of the batch is sent in the store, the ones hydration did not find
\* included.
C16_PartialHydration ==
    \A p \in Procs :
        /\ inv[p].pc = "done" /\ inv[p].result.failedAt = "hydrate" => inv[p].found = 0
        /\ /\ inv[p].pc = "done"
           /\ inv[p].result.kind = "sent"
           /\ inv[p].found < Len(inv[p].jobGuids)
           => /\ inv[p].found >= 1
              /\ inv[p].sent
              /\ inv[p].sends = 1
              /\ inv[p].marks = 1
              /\ inv[p].result.queueUpdated => BatchRetired(p)

\* Hydration found one posting of a batch of two; both are sent.
C16_Witness ==
    /\ inv[1].pc = "done"
    /\ inv[1].result.kind = "sent"
    /\ inv[1].result.queueUpdated
    /\ inv[1].found = 1
    /\ Len(inv[1].jobGuids) = 2
    /\ inv[1].jobGuids[1] # inv[1].jobGuids[2]
    /\ BatchRetired(1)

\* ---- C17  Zero hydration aborts: the sender is invoked and markAsSent is
\* called only in a cycle whose hydration found a posting; a cycle whose
\* hydration found none (or threw) ends as a failure with no send and no
\* markAsSent call, the store being as addNewJobs left it.
C17_ZeroHydrationAborts ==
    \A p \in Procs :
        /\ \/ inv[p].pc \in {"send", "mark"}
           \/ inv[p].sends > 0
           \/ inv[p].marks > 0
           => inv[p].found >= 1
        /\ inv[p].pc = "done" /\ inv[p].result.failedAt = "hydrate" =>
             /\ inv[p].result.kind = "error"
             /\ inv[p].found = 0
             /\ inv[p].sends = 0
             /\ inv[p].marks = 0
             /\ ~inv[p].sent
             /\ blob = inv[p].afterAdd

\* A cycle that selected two postings and hydrated none: both are pending.
C17_Witness ==
    /\ inv[1].pc = "done"
    /\ inv[1].result.failedAt = "hydrate"
    /\ Len(inv[1].jobGuids) = 2
    /\ inv[1].jobGuids[1] # inv[1].jobGuids[2]
    /\ campaigns = 0
    /\ getPendingCount(getJobQueue(blob, now, TRUE)) >= 2

\* ---- C18  Configuration and fetch errors cause no queue mutation: a cycle
\* that fails at the constructors (missing sender credentials) or at
\* fetchJobMetadata (missing feed URL, unreachable or malformed feed) ends
\* as a failure having called neither addNewJobs, getNextBatch, the sender
\* nor markAsSent, and none of its steps changed the persisted queue.
C18_ConfigFetchNoMutation ==
    /\ [](\A p \in Procs :
            inv[p].pc = "done" /\ inv[p].result.failedAt \in {"config", "fetch"} =>
                /\ inv[p].result.kind = "error"
                /\ inv[p].afterAdd = <<>>
                /\ inv[p].jobGuids = <<>>
                /\ inv[p].sends = 0
                /\ inv[p].marks = 0)
    /\ [][\A p \in Procs :
            inv[p].pc \in {"idle", "fetch"} /\ inv'[p] # inv[p] =>
                blob' = blob /\ campaigns' = campaigns]_vars

\* A failed fetch over a queue that holds a sent and a pending record.
C18_Witness ==
    /\ inv[1].pc = "done"
    /\ inv[1].result.failedAt = "fetch"
    /\ \E i, j \in DOMAIN QueueOf(blob) :
         QueueOf(blob)[i].status = "sent" /\ QueueOf(blob)[j].status = "pending"

\* ---- C19  Empty feed ends the cycle: addNewJobs and every later step run
\* only with a feed that returned metadata; a cycle whose feed returned none
\* ends at the fetch reporting 'no jobs found', with no addNewJobs, no batch
\* selection, no sender call and no markAsSent, and leaves the store as it
\* was, however many records are pending.
C19_EmptyFeedEnds ==
    /\ [](\A p \in Procs :
            /\ inv[p].pc \in {"add", "gate", "batch", "hydrate", "send", "mark"}
                 => Len(inv[p].jobMetadata) > 0
            /\ inv[p].pc = "done" /\ inv[p].result.kind = "noJobs" =>
                 /\ inv[p].jobMetadata = <<>>
                 /\ inv[p].afterAdd = <<>>
                 /\ inv[p].jobGuids = <<>>
                 /\ inv[p].sends = 0
                 /\ inv[p].marks = 0)
    /\ [][\A p \in Procs :
            inv'[p].result.kind = "noJobs" /\ inv[p].result.kind # "noJobs" =>
                /\ inv[p].pc = "fetch"
                /\ blob' = blob
                /\ campaigns' = campaigns]_vars

\* 'No jobs found' with threshold 1 while two records are pending.
C19_Witness ==
    /\ inv[1].pc = "done"
    /\ inv[1].result.kind = "noJobs"
    /\ env = 1
    /\ getPendingCount(getJobQueue(blob, now, TRUE)) = 2

\* The store after one flush: every record sent, one email counted.
Flushed(b) ==
    /\ Len(QueueOf(b)) > 0
    /\ \A i \in DOMAIN QueueOf(b) : QueueOf(b)[i].status = "sent"
    /\ EmailsSentOf(b) = 1

\* Cycle p enqueued, on an empty queue, a feed of jobThreshold distinct
\* postings, hydrated all of them, sent the campaign and marked.
FlushCycle(p) ==
    /\ inv[p].pc = "done"
    /\ inv[p].result.kind = "sent"
    /\ inv[p].result.queueUpdated
    /\ Len(inv[p].jobMetadata) = jobThreshold
    /\ \A i, j \in DOMAIN inv[p].jobMetadata :
         inv[p].jobMetadata[i].guid = inv[p].jobMetadata[j].guid => i = j
    /\ Len(QueueOf(inv[p].afterAdd)) = jobThreshold
    /\ TotalOf(inv[p].afterAdd) = jobThreshold
    /\ EmailsSentOf(inv[p].afterAdd) = 0
    /\ inv[p].found = jobThreshold

\* ---- C20  End-to-end flush: a cycle that starts from an empty queue, whose
\* feed returns threshold-many distinct new postings, whose hydration finds
\* them all and whose send succeeds ends with exactly those records in the
\* store, all sent, none pending, and emailsSent = 1; and on such a store a
\* cycle whose feed returns no items reports 'no jobs' and changes nothing.
C20_EndToEndFlush ==
    /\ [](\A p \in Procs :
            FlushCycle(p) =>
                /\ Len(QueueOf(blob)) = jobThreshold
                /\ Len(inv[p].jobGuids) = jobThreshold
                /\ BatchRetired(p)
                /\ getPendingCount(getJobQueue(blob, now, TRUE)) = 0
                /\ Flushed(blob)
                /\ TotalOf(blob) = jobThreshold)
    /\ [][\A p \in Procs :
            /\ Flushed(blob)
            /\ inv[p].pc = "fetch"
            /\ inv'[p].pc = "done"
            /\ inv'[p].result.failedAt = "none"
            => inv'[p].result.kind = "noJobs" /\ blob' = blob]_vars

\* After the flush of two postings with threshold 2, the next cycle found an
\* empty feed and reported 'no jobs'.
C20_Witness ==
    /\ inv[1].pc = "done"
    /\ inv[1].result.kind = "noJobs"
    /\ env = 2
    /\ campaigns = 1
    /\ Len(QueueOf(blob)) = 2
    /\ TotalOf(blob) = 2
    /\ Flushed(blob)

\* ---- C21  Diagnostic entry point equals the scheduled one: a diagnostic
\* invocation marks records sent only after a campaign has been sent, and
\* it accumulates or goes on to the batch by the configured threshold, as
\* the scheduled invocation does.
C21_DiagnosticAsScheduled ==
    \A p \in Procs :
        /\ inv[p].marks > 0 => inv[p].sent /\ campaigns >= 1
        /\ inv[p].pc = "done" /\ inv[p].result.kind = "waiting" =>
             /\ inv[p].pendingCount < jobThreshold
             /\ inv[p].result.needed = jobThreshold - inv[p].pendingCount
        /\ inv[p].pc \in {"batch", "hydrate", "mark"} =>
             inv[p].pendingCount >= jobThreshold

\* Both invocations have sent a campaign, and a guid is in both batches.
DuplicateSend ==
    /\ inv[1].sent
    /\ inv[2].sent
    /\ \E i \in DOMAIN inv[1].jobGuids, j \in DOMAIN inv[2].jobGuids :
         inv[1].jobGuids[i] = inv[2].jobGuids[j]

\* ---- C22  Overlapping invocations can duplicate a campaign: two
\* invocations send a campaign for the same guid only if one started while
\* the other was running or a store call of one of them failed; run one
\* after the other with the store answering, they never do.  (The witness
\* is the duplicate send of two overlapping invocations without any fault.)
C22_DuplicateNeedsOverlap ==
    DuplicateSend =>
        \/ inv[1].overlap
        \/ inv[2].overlap
        \/ inv[1].storeFault
        \/ inv[2].storeFault

\* Both invocations selected the same batch before either marked, both sent
\* it, and both ended reporting a sent campaign; no store call failed.
C22_Witness ==
    /\ DuplicateSend
    /\ inv[1].jobGuids = inv[2].jobGuids
    /\ inv[2].overlap
    /\ ~inv[1].storeFault
    /\ ~inv[2].storeFault
    /\ inv[1].pc = "done" /\ inv[1].result.kind = "sent"
    /\ inv[2].pc = "done" /\ inv[2].result.kind = "sent"
    /\ campaigns = 2

\* A complete queue document: the four fields of getEmptyQueue, a timestamp,
\* two counters, and records that each have their four fields.
IsQueueState(d) ==
    /\ DOMAIN d = {"jobQueue", "lastProcessed", "emailsSent", "totalJobsProcessed"}
    /\ d.lastProcessed \in Nat \ {NoDate}
    /\ d.emailsSent \in Nat
    /\ d.totalJobsProcessed \in Nat
    /\ DOMAIN d.jobQueue = 1..Len(d.jobQueue)
    /\ \A i \in DOMAIN d.jobQueue :
         /\ DOMAIN d.jobQueue[i] = {"guid", "pubDate", "status", "sentAt"}
         /\ d.jobQueue[i].status \in {"pending", "sent"}
         /\ d.jobQueue[i].guid \in Guids
         /\ d.jobQueue[i].pubDate \in Nat \ {NoDate}
         /\ d.jobQueue[i].sentAt \in Nat

\* The document the store call c wrote: its operation applied to the one
\* document its getJobQueue had returned.
WrittenBy(c) ==
    Continue([op |-> c.op, items |-> c.items, guids |-> c.guids, n |-> c.n,
              doc |-> c.read], now, TRUE).retDoc

\* ---- C23  Whole-document writes: with the store calls of two invocations
\* interleaved at their reads and saves, the store holds nothing or one
\* complete queue document, and after a save it holds exactly the document
\* that one call computed from the one document it had read: no field comes
\* from what another call had stored.  (A call that read before another
\* call's save overwrites that save whole: the witness.)
C23_WholeDocumentWrites ==
    /\ blob # <<>> => Len(blob) = 1 /\ IsQueueState(blob[1])
    /\ last.op # "none" /\ last.out.wrote => blob = <<WrittenBy(last)>>

\* A lost update: addNewJobs saved a document computed from a read that
\* predates the store's content, and a record the store held is gone.
C23_Witness ==
    /\ last.op = "addNewJobs"
    /\ last.out.wrote
    /\ last.before # <<>>
    /\ last.before # <<last.read>>
    /\ \E g \in GuidsOf(last.before[1].jobQueue) : g \notin GuidsOf(blob[1].jobQueue)
    /\ last.fault = "none"

\* The full schema: an array of records, a timestamp, two numbers.
IsQueueStateJson(d) ==
    /\ DOMAIN d = {"jobQueue", "lastProcessed", "emailsSent", "totalJobsProcessed"}
    /\ d.jobQueue.t = "array"
    /\ d.lastProcessed.t = "time"
    /\ d.emailsSent.t = "number"
    /\ d.totalJobsProcessed.t = "number"

\* ---- C24  Reads never fail: getJobQueue hands back the empty queue when
\* the key holds nothing or the retrieval fails, and otherwise the stored
\* document normalized to the full schema: jobQueue an array, lastProcessed
\* a timestamp, emailsSent and totalJobsProcessed numbers, whatever fields
\* of the stored document were missing or malformed.
C24_ReadsNormalized ==
    Called("getJobQueue") =>
        /\ IsQueueStateJson(last.read)
        /\ last.fault = "read" \/ last.before = <<>> =>
             last.read = getEmptyQueueJson(now)

\* No item of the list would become a record of the persisted queue b.
NothingNew(items, b) ==
    \A i \in DOMAIN items :
        items[i].guid = NoGuid \/ items[i].guid \in GuidsOf(QueueOf(b))

\* ---- C25  addNewJobs without new records is a no-op: called with an empty
\* list, or with items that each lack a guid or carry the guid of a record
\* of the persisted queue, it does not throw, writes nothing, returns the
\* persisted state, and leaves the document (records, lastProcessed,
\* totalJobsProcessed) as it was.
C25_AddNoOp ==
    Called("addNewJobs") /\ NothingNew(last.items, last.before) =>
        /\ ~last.out.threw
        /\ ~last.out.wrote
        /\ blob = last.before
        /\ last.out.retDoc = getJobQueue(last.before, now, TRUE)

\* ---- C26  lastProcessed tracks the last mutation: a call that saved the
\* document (addNewJobs appending, markAsSent transitioning, cleanupOldJobs
\* removing) left lastProcessed at the time of the call, and a call that
\* saved nothing left the stored lastProcessed as it was.
C26_LastProcessedTracks ==
    /\ ~Idle /\ last.out.wrote => blob[1].lastProcessed = now
    /\ ~Idle /\ ~last.out.wrote => blob = last.before

\* ---- C27  Top-level error handling: a cycle that met an error is in the
\* catch or has returned the 500 response; there is at most one notification
\* attempt, and only with an admin address configured; from the error on,
\* the cycle sends no campaign, saves nothing and keeps the result it
\* reports, whether the notification was delivered, failed or was not tried.
C27_ErrorsCaught ==
    /\ [](\A p \in Procs :
            /\ inv[p].notices <= 1
            /\ inv[p].notices = 1 <=> inv[p].notice \in {"sent", "failed"}
            /\ inv[p].result.kind = "error" =>
                 /\ inv[p].pc = "done"
                 /\ Response(inv[p].result).statusCode = 500
                 /\ Response(inv[p].result).message = Message(inv[p].result.failedAt)
                 /\ inv[p].result.failedAt
                      \in {"config", "fetch", "add", "hydrate", "send", "mark"}
            /\ inv[p].notice # "none" => inv[p].result.kind = "error")
    /\ [][\A p \in Procs :
            inv[p].result.kind = "error" /\ inv'[p] # inv[p] =>
                /\ blob' = blob
                /\ campaigns' = campaigns
                /\ \/ inv'[p].pc = "idle"
                   \/ /\ inv[p].notice = "none"
                      /\ inv'[p] = [inv[p] EXCEPT !.notice = inv'[p].notice,
                                                  !.notices = inv'[p].notices]]_vars

\* A cycle whose markAsSent failed after the campaign went out, and whose
\* notification failed too: it reports the markAsSent failure.
C27_Witness ==
    /\ inv[1].pc = "done"
    /\ inv[1].result.failedAt = "mark"
    /\ inv[1].notice = "failed"
    /\ inv[1].notices = 1
    /\ inv[1].sent

\* The handler has its response: a result, and the catch behind it when the
\* result is an error.
Terminated(p) ==
    /\ inv[p].pc = "done"
    /\ inv[p].result.kind = "error" => inv[p].notice # "none"

\* ---- C28  Every invocation terminates with exactly one outcome: with
\* every awaited call returning or throwing, a triggered cycle reaches its
\* response; the response is one of 'no jobs', 'waiting, N needed',
\* 'campaign sent', the empty-batch anomaly or an error, set once and at the
\* end; a cycle that reports waiting has selected, sent and marked nothing,
\* and no cycle calls the sender twice.
C28_OneOutcome ==
    /\ [](\A p \in Procs :
            /\ inv[p].pc = "done" =>
                 inv[p].result.kind \in {"noJobs", "waiting", "sent", "emptyBatch", "error"}
            /\ inv[p].pc # "done" => inv[p].result.kind = "none"
            /\ inv[p].sends <= 1
            /\ inv[p].marks <= 1
            /\ inv[p].result.kind = "waiting" =>
                 /\ inv[p].sends = 0
                 /\ inv[p].marks = 0
                 /\ inv[p].jobGuids = <<>>
                 /\ inv[p].result.needed = jobThreshold - inv[p].pendingCount
                 /\ inv[p].result.needed > 0
            /\ inv[p].result.kind = "sent" => inv[p].sends = 1 /\ inv[p].sent)
    /\ [][\A p \in Procs :
            inv[p].pc = "done" /\ inv'[p].pc # "idle" =>
                inv'[p].result = inv[p].result]_vars
    /\ (inv[1].pc # "idle") ~> Terminated(1)

\* A cycle that ended waiting for one more posting.
C28_Witness ==
    /\ Terminated(1)
    /\ inv[1].result.kind = "waiting"
    /\ inv[1].result.needed = 1
    /\ inv[1].pendingCount = 1
    /\ campaigns = 1

\* ---- C29  Empty-batch anomaly is non-fatal: a cycle that counted at least
\* jobThreshold pending records and was handed an empty batch ends with a
\* 200 response reporting the anomaly, with no hydration, no sender call and
\* no markAsSent; hydration, sender and markAsSent only ever run on a batch
\* that holds a guid.
C29_EmptyBatchEnds ==
    \A p \in Procs :
        /\ inv[p].pc \in {"hydrate", "send", "mark"} => inv[p].jobGuids # <<>>
        /\ inv[p].result.kind = "emptyBatch" =>
             /\ inv[p].pc = "done"
             /\ Response(inv[p].result).statusCode = 200
             /\ inv[p].pendingCount >= jobThreshold
             /\ inv[p].jobGuids = <<>>
             /\ inv[p].found = 0
             /\ inv[p].sends = 0
             /\ ~inv[p].sent
             /\ inv[p].marks = 0

\* Invocation 2 counted two pending records; invocation 1 retired them
\* before invocation 2 selected its batch; no store call failed.
C29_Witness ==
    /\ inv[2].result.kind = "emptyBatch"
    /\ inv[2].pendingCount = 2
    /\ ~inv[2].storeFault
    /\ ~inv[1].storeFault
    /\ inv[1].result.kind = "sent"
    /\ inv[1].marks = 1
    /\ getPendingCount(getJobQueue(blob, now, TRUE)) = 0

\* ---- C30  Duplicate prevention in the original scheduler: a job that a
\* sent campaign has carried is not stored again by a later cycle and not
\* carried by a later campaign.
C30_NoResend ==
    \A p \in Procs :
        /\ inv[p].pc \in {"send", "clear"} =>
             IdsOf(getStoredJobs(blob, TRUE)) \cap inv[p].mailed = {}
        /\ inv[p].sent =>
             {inv[p].jobGuids[i] : i \in DOMAIN inv[p].jobGuids} \cap inv[p].mailed = {}

\* The ids the 'accumulated-jobs' key holds, in order.
StoredIds(b) ==
    [i \in DOMAIN getStoredJobs(b, TRUE) |-> getStoredJobs(b, TRUE)[i].id]

\* ---- C31  Reset after successful send in the original scheduler: the
\* sender is called with the stored jobs and only when they are at least 10;
\* the storage is emptied only by a cycle whose sendJobCampaign has returned;
\* a cycle whose send threw ends with the jobs it tried to send still stored.
C31_ClearAfterSend ==
    /\ [](\A p \in Procs :
            /\ inv[p].pc \in {"send", "clear"} =>
                 /\ Len(inv[p].jobGuids) >= LegacyThreshold
                 /\ StoredIds(blob) = inv[p].jobGuids
            /\ inv[p].sends > 0 => Len(inv[p].jobGuids) >= LegacyThreshold
            /\ inv[p].pc = "done" /\ inv[p].result.failedAt = "send" =>
                 /\ ~inv[p].sent
                 /\ StoredIds(blob) = inv[p].jobGuids)
    /\ [][blob # <<>> /\ blob' = <<>> =>
            \E p \in Procs : inv[p].pc = "clear" /\ inv[p].sent]_vars

\* A cycle whose send threw, after an earlier cycle had sent and cleared:
\* the ten jobs are still stored.
C31_Witness ==
    /\ inv[1].pc = "done"
    /\ inv[1].result.failedAt = "send"
    /\ Len(StoredIds(blob)) = LegacyThreshold
    /\ campaigns = 1
    /\ inv[1].mailed # {}

\* ---- C32  A transient read fault does not erase the queue: after an
\* addNewJobs or markAsSent call, whatever its read did, every record the
\* store held before the call is still there, a sent record still sent, and
\* the counters have not dropped; records go only through cleanupOldJobs.
C32_ReadFaultKeepsQueue ==
    Called("addNewJobs") \/ Called("markAsSent") =>
        /\ \A i \in DOMAIN QueueOf(last.before) :
             \E j \in DOMAIN QueueOf(blob) :
                /\ QueueOf(blob)[j].guid = QueueOf(last.before)[i].guid
                /\ QueueOf(last.before)[i].status = "sent" =>
                     QueueOf(blob)[j].status = "sent"
        /\ TotalOf(blob) >= TotalOf(last.before)
        /\ EmailsSentOf(blob) >= EmailsSentOf(last.before)

\* ---- C33  A reported success implies the batch is retired: a cycle that
\* ends reporting 'campaign sent' leaves every guid of its batch with status
\* sent in the store, whatever markAsSent's read did and returned.
C33_SentMeansRetired ==
    \A p \in Procs :
        inv[p].pc = "done" /\ inv[p].result.kind = "sent" => BatchRetired(p)

\* ---- C34  No guid is retired twice: no pending record of the store
\* carries a guid that a markAsSent call has already transitioned to sent,
\* and no markAsSent call transitions such a guid again, whatever
\* cleanupOldJobs has removed in between.
C34_RetiredOnce ==
    /\ \A j \in DOMAIN QueueOf(blob) :
         QueueOf(blob)[j].status = "pending" =>
             QueueOf(blob)[j].guid \notin inv[1].mailed
    /\ Transitioned \cap inv[1].mailed = {}

\* ---- C35  Dispatch makes progress: with invocations following one
\* another, no store call failing, the provider sending and the feed never
\* empty, a cycle that finds the pending count at or above the threshold is
\* followed, in that cycle or a later one, by a cycle that reports a sent
\* campaign.
C35_DispatchProgress ==
    (inv[1].pc = "batch") ~> (inv[1].pc = "done" /\ inv[1].result.kind = "sent")

\* ---- C36  One batch of exactly threshold records per cycle: in a cycle
\* without store faults the batch selected at or above the threshold holds
\* exactly threshold records, at most one campaign is sent, and after a cycle
\* that reports a sent campaign exactly pendingCount - threshold records are
\* pending.
PendingIn(b) == Cardinality({i \in DOMAIN QueueOf(b) : QueueOf(b)[i].status = "pending"})

C36_OneBatchPerCycle ==
    ~inv[1].storeFault =>
        /\ inv[1].pc \in {"hydrate", "send", "mark"} =>
               Len(inv[1].jobGuids) = jobThreshold
        /\ inv[1].sends <= 1
        /\ inv[1].pc = "done" /\ inv[1].result.kind = "sent" =>
               PendingIn(blob) = inv[1].pendingCount - jobThreshold

\* ---- C37  Counter conservation: over addNewJobs, markAsSent and
\* cleanupOldJobs calls that follow one another without a store fault, every
\* persisted record is pending or sent, totalJobsProcessed is the length of
\* the queue plus the number of records cleanupOldJobs has removed, and
\* emailsSent is at most the number of records turned to sent.
C37_CounterConservation ==
    /\ \A i \in DOMAIN QueueOf(blob) : QueueOf(blob)[i].status \in {"pending", "sent"}
    /\ TotalOf(blob) = Len(QueueOf(blob)) + inv[1].removed
    /\ EmailsSentOf(blob) <= inv[1].transitions

\* Records were added, some marked by one call that turned two of them, some
\* removed by a cleanup, and one is still queued.
C37_Witness ==
    /\ inv[1].removed > 0
    /\ Len(QueueOf(blob)) > 0
    /\ EmailsSentOf(blob) > 0
    /\ EmailsSentOf(blob) < inv[1].transitions

\* ---- C38  Sent status survives overlapping invocations: when addNewJobs
\* or markAsSent of one invocation saves, with no store fault (its read was
\* answered with a stored queue, its write went through), every record the
\* store held as sent just before the save is still held, as sent, after it,
\* also when the other invocation saved between this call's read and its
\* save.
C38_SentSurvivesOverlap ==
    /\ last.op \in {"addNewJobs", "markAsSent"}
    /\ last.out.wrote
    /\ last.fault = "none"
    /\ last.read.jobQueue # <<>>
    => \A i \in DOMAIN QueueOf(last.before) :
           QueueOf(last.before)[i].status = "sent" =>
               \E j \in DOMAIN QueueOf(blob) :
                   /\ QueueOf(blob)[j].guid = QueueOf(last.before)[i].guid
                   /\ QueueOf(blob)[j].status = "sent"

\* ---- C39  Stats agree with the dispatch threshold: when a cycle without
\* store faults ends waiting for the threshold, the neededForEmail that
\* getQueueStats computes on the persisted queue is max(0, threshold -
\* pendingJobs) for the configured threshold and equals the `needed` the
\* cycle reports, and pendingJobs + sentJobs = totalJobs.
C39_StatsAgreeWithThreshold ==
    /\ inv[1].pc = "done"
    /\ inv[1].result.kind = "waiting"
    /\ ~inv[1].storeFault
    => LET stats == getQueueStats(blob, now, TRUE) IN
       /\ stats.neededForEmail =
              IF jobThreshold - stats.pendingJobs > 0
              THEN jobThreshold - stats.pendingJobs ELSE 0
       /\ stats.neededForEmail = inv[1].result.needed
       /\ stats.pendingJobs + stats.sentJobs = stats.totalJobs
====
